---- MODULE Spec2Model ----
(***************************************************************************)
(* Tempo estimation engine of midi_bpm_detection: the duration/index       *)
(* mapping (bpm.rs), the Gaussian kernel (normal_distribution.rs) and the  *)
(* estimator BPMDetection (bpm_detection.rs).                              *)
(*                                                                         *)
(* Numeric conventions of the model                                        *)
(*  - a Duration is an integer number of ticks (the program counts         *)
(*    nanoseconds; the model counts TicksPerMs ticks per millisecond);     *)
(*  - a bpm (f32 in the program) is an exact fraction [n, d] = n / d;      *)
(*  - f64::round is RoundDiv (half away from zero), `as i64` truncates,    *)
(*    `as usize` saturates negative values to 0;                           *)
(*  - a score (f32) is a fixed-point integer with ScoreScale units per 1.  *)
(***************************************************************************)
EXTENDS Integers, Sequences, FiniteSets, TLC

\* ---------------------------------------------------------------- bounds
TicksPerMs == 1
ScoreScale == 100
MaxNotes == 3

Second == 1000 * TicksPerMs
Millis(ms) == ms * TicksPerMs

\* ------------------------------------------------------------- constants
BpmScale == 100
NOTE_CAPACITY == 10000

\* --------------------------------------------------------------- helpers
Max(a, b) == IF a >= b THEN a ELSE b
Min(a, b) == IF a <= b THEN a ELSE b
Abs(a) == IF a < 0 THEN -a ELSE a

\* f64::round of a / b for a >= 0, b > 0
RoundDiv(a, b) == (2 * a + b) \div (2 * b)

Some(v) == [some |-> TRUE, val |-> v]
None == [some |-> FALSE, val |-> 0]

\* ----------------------------------------------------------------- bpm.rs
duration_to_sample(sample_rate, duration) ==
    IF duration <= 0 THEN 0 ELSE RoundDiv(duration * sample_rate, Second)

sample_to_duration(sample_rate, sample) == (sample * Second) \div sample_rate

bpm_to_beat_duration(bpm) == RoundDiv(60 * Second * bpm.d, bpm.n)

beat_duration_to_bpm(beat_duration) == [n |-> 60 * Second, d |-> beat_duration]

lowest_bpm(cfg) ==
    [n |-> Max(cfg.bpm_center - BpmScale * (cfg.bpm_range \div 2), BpmScale), d |-> BpmScale]

highest_bpm(cfg) ==
    [n |-> lowest_bpm(cfg).n + BpmScale * cfg.bpm_range, d |-> BpmScale]

\* chrono's Duration::checked_sub is signed: it is None only on overflow of the
\* representable range, which no beat period (at most 60 s) reaches.
checked_sub(a, b) == Some(a - b)

\* `index <= buffer_size` instead of `index < buffer_size`
duration_to_index_inclusive(cfg, duration, len) ==
    LET a == duration_to_sample(cfg.sample_rate, duration)
        b == duration_to_sample(cfg.sample_rate, bpm_to_beat_duration(highest_bpm(cfg)))
    IN  IF a < b THEN None
        ELSE IF a - b <= len THEN Some(a - b) ELSE None

duration_to_index(cfg, duration, len) ==
    LET a == duration_to_sample(cfg.sample_rate, duration)
        b == duration_to_sample(cfg.sample_rate, bpm_to_beat_duration(highest_bpm(cfg)))
    IN  IF a < b THEN None
        ELSE IF a - b < len THEN Some(a - b) ELSE None

buffer_size_panics(cfg) ==
    ~checked_sub(bpm_to_beat_duration(lowest_bpm(cfg)),
                 bpm_to_beat_duration(highest_bpm(cfg))).some

buffer_size(cfg) ==
    duration_to_sample(cfg.sample_rate,
        checked_sub(bpm_to_beat_duration(lowest_bpm(cfg)),
                    bpm_to_beat_duration(highest_bpm(cfg))).val)

\* the bin's offset alone, without the period of the highest bpm
index_to_duration_without_offset(cfg, index) ==
    sample_to_duration(cfg.sample_rate, index)

index_to_duration(cfg, index) ==
    sample_to_duration(cfg.sample_rate, index) + bpm_to_beat_duration(highest_bpm(cfg))

\* ------------------------------------------------ normal_distribution.rs
\* statrs' Normal::pdf(x) for mean 0, times `factor`, as a fixed-point score.
\* The density 1/(s*sqrt(2*pi)) * exp(-x^2/(2 s^2)) is taken with
\* 1/sqrt(2*pi) ~ 2/5 and exp(-z) ~ 1/(1+z): positive, even in x and
\* strictly decreasing in |x| like the library function.
pdf_times_factor(std_dev, factor, x) ==
    LET s2 == 2 * Millis(std_dev) * Millis(std_dev)
    IN  (factor * 2 * ScoreScale * s2) \div (5 * std_dev * (s2 + x * x))

index_for_duration(nc, duration) ==
    LET x == duration + Millis(nc.cutoff)
    IN  IF x <= 0 THEN 0 ELSE RoundDiv(x, Millis(nc.resolution))

duration_for_index(nc, index) == index * Millis(nc.resolution) - Millis(nc.cutoff)

\* the table one entry short: ceil(2 * cutoff / resolution)
size_without_last(nc) == (2 * nc.cutoff + nc.resolution - 1) \div nc.resolution

size(nc) == ((2 * nc.cutoff + nc.resolution - 1) \div nc.resolution) + 1

make_normal_distribution(nc) ==
    [x \in 0..(size(nc) - 1) |->
        pdf_times_factor(nc.std_dev, nc.factor, duration_for_index(nc, x))]

\* Index<Duration>: a slice access, which panics outside the table
Index_panics(nc, duration) == index_for_duration(nc, duration) \notin 0..(size(nc) - 1)

Index(nc, duration) == make_normal_distribution(nc)[index_for_duration(nc, duration)]

\* ---------------------------------------------------------- parameter crate
\* the value whatever the switch
weight_of_either(p) == p.value

\* lines 215-220
weight(p) == IF p.on THEN p.value ELSE 0

\* ------------------------------------------------------- bpm_detection.rs
\* An f32 feature: NaN, or the fraction n / d
NaN == [nan |-> TRUE, n |-> 0, d |-> 1]
Frac(n, d) == [nan |-> FALSE, n |-> n, d |-> d]
One == Frac(1, 1)
HalfOf(c) == Frac(c.n, 2 * c.d)

DoublingBudget == 9

\* the loop with a budget of 8 iterations: `for _ in 0..8`
RECURSIVE halving_loop_budgeted(_, _, _, _)
halving_loop_budgeted(interval, multiplier, interval_high, steps) ==
    LET i2 == interval \div 2
        m2 == IF multiplier.nan THEN One ELSE HalfOf(multiplier)
    IN  IF i2 < interval_high \/ steps + 1 >= 8
        THEN [interval |-> i2, tracker |-> m2, steps |-> steps + 1]
        ELSE halving_loop_budgeted(i2, m2, interval_high, steps + 1)

\* lines 107-115: `loop { interval / 2; ...; if interval < interval_high break }`
RECURSIVE halving_loop(_, _, _, _)
halving_loop(interval, multiplier, interval_high, steps) ==
    LET i2 == interval \div 2
        m2 == IF multiplier.nan THEN One ELSE HalfOf(multiplier)
    IN  IF i2 < interval_high
        THEN [interval |-> i2, tracker |-> m2, steps |-> steps + 1]
        ELSE halving_loop(i2, m2, interval_high, steps + 1)

\* a `loop` like the halving branch's instead of the `for`: no budget
RECURSIVE doubling_loop_unbudgeted(_, _, _, _, _)
doubling_loop_unbudgeted(interval, subdivision, interval_low, steps, budget) ==
    LET i2 == interval * 2
        s2 == IF subdivision.nan THEN One ELSE HalfOf(subdivision)
    IN  IF i2 > interval_low
        THEN [interval |-> i2, tracker |-> s2, steps |-> steps + 1]
        ELSE doubling_loop_unbudgeted(i2, s2, interval_low, steps + 1, budget)

\* lines 118-124: `for _ in 0..=8 { interval * 2; ...; if interval > interval_low break }`
RECURSIVE doubling_loop(_, _, _, _, _)
doubling_loop(interval, subdivision, interval_low, steps, budget) ==
    IF budget = 0
    THEN [interval |-> interval, tracker |-> subdivision, steps |-> steps]
    ELSE LET i2 == interval * 2
             s2 == IF subdivision.nan THEN One ELSE HalfOf(subdivision)
         IN  IF i2 > interval_low
             THEN [interval |-> i2, tracker |-> s2, steps |-> steps + 1]
             ELSE doubling_loop(i2, s2, interval_low, steps + 1, budget - 1)

\* the block without lines 108 and 117: in_range stays 1.0 in every branch
fold_always_in_range(interval, interval_low, interval_high) ==
    IF interval > interval_high
    THEN LET r == halving_loop(interval, NaN, interval_high, 0)
         IN  [interval |-> r.interval, in_range |-> One, multiplier |-> r.tracker,
              subdivision |-> NaN, halved |-> r.steps, doubled |-> 0]
    ELSE IF interval > Millis(1) /\ interval < interval_low
    THEN LET r == doubling_loop(interval, NaN, interval_low, 0, DoublingBudget)
         IN  [interval |-> r.interval, in_range |-> One, multiplier |-> NaN,
              subdivision |-> IF r.interval < interval_low THEN NaN ELSE r.tracker,
              halved |-> 0, doubled |-> r.steps]
    ELSE [interval |-> interval, in_range |-> One, multiplier |-> NaN,
          subdivision |-> NaN, halved |-> 0, doubled |-> 0]

\* lines 102-131: the block's tuple (interval, in_range, multiplier, subdivision),
\* with the block's own names
fold(interval, interval_low, interval_high) ==
    IF interval > interval_high
    THEN LET r == halving_loop(interval, NaN, interval_high, 0)
         IN  [interval |-> r.interval, in_range |-> NaN, multiplier |-> r.tracker,
              subdivision |-> NaN, halved |-> r.steps, doubled |-> 0]
    ELSE IF interval > Millis(1) /\ interval < interval_low
    THEN LET r == doubling_loop(interval, NaN, interval_low, 0, DoublingBudget)
         IN  [interval |-> r.interval, in_range |-> NaN, multiplier |-> NaN,
              subdivision |-> IF r.interval < interval_low THEN NaN ELSE r.tracker,
              halved |-> 0, doubled |-> r.steps]
    ELSE [interval |-> interval, in_range |-> One, multiplier |-> NaN,
          subdivision |-> NaN, halved |-> 0, doubled |-> 0]

\* f32 arithmetic overflows to +infinity, the largest score of the model
Infinity == 1000000000

\* fixed-point product of scores, (a * b) / ScoreScale computed by parts
FMul(a, b) ==
    CHOOSE product \in
        {IF y > 0 /\ x \div ScoreScale >= Infinity \div y
         THEN Infinity
         ELSE Min(Infinity, (x \div ScoreScale) * y + ((x % ScoreScale) * y) \div ScoreScale) :
            x \in {a}, y \in {b}} : TRUE

RECURSIVE FPow(_, _)
FPow(a, w) == IF w <= 0 THEN ScoreScale ELSE FMul(a, FPow(a, w - 1))

\* lines 175-176: 10^(log10(c * 9 + 1) * w) of a criterion that passes the
\* filter (finite and positive), 10^0 of one that does not
criterion(c, w) ==
    IF c.nan \/ c.d = 0 \/ w <= 0 THEN ScoreScale
    ELSE IF (c.n > 0) # (c.d > 0) \/ c.n = 0 THEN ScoreScale
    ELSE FPow(ScoreScale + (9 * Abs(c.n) * ScoreScale) \div Abs(c.d), w)

\* The estimator `self`: its fields are the variables of the model
\*   [interval_high, interval_low, notes, static_bpm_detection_parameters,
\*    histogram_data_points]; the kernel is derived from the parameters.

\* lines 142-177: 10^intensity of the pair (note_from, note_to)
intensity(self, dyn, newest, maximum_interval, note_from, note_to) ==
    LET note_age == newest - note_to.timestamp
        f == fold(note_to.timestamp - note_from.timestamp,
                  self.interval_low, self.interval_high)
        \* line 102 binds the block's (multiplier, subdivision) to
        \* (subdivision, multiplier)
        subdivision == f.multiplier
        multiplier == f.subdivision
        pitch_interval == Abs((note_to.note % 12) - (note_from.note % 12))
        pitch_distance == Frac(12 - Min(pitch_interval, 12 - pitch_interval), 12)
        octave_distance ==
            Frac(11 - Abs((note_to.note \div 12) - (note_from.note \div 12)), 11)
        age == Frac(maximum_interval - note_age, maximum_interval)
        velocity_note_from == Frac(note_from.velocity, 127)
        velocity_current_note == Frac(note_to.velocity, 127)
        high_tempo_bias ==
            Frac(self.interval_high - f.interval, self.interval_high - self.interval_low)
    IN  FMul(FMul(FMul(FMul(FMul(FMul(FMul(FMul(
            criterion(velocity_current_note, weight(dyn.velocity_current_note_weight)),
            criterion(velocity_note_from, weight(dyn.velocity_note_from_weight))),
            criterion(age, weight(dyn.age_weight))),
            criterion(octave_distance, weight(dyn.octave_distance_weight))),
            criterion(pitch_distance, weight(dyn.pitch_distance_weight))),
            criterion(multiplier, weight(dyn.multiplier_weight))),
            criterion(subdivision, weight(dyn.subdivision_weight))),
            criterion(f.in_range, weight(dyn.in_beat_range_weight))),
            criterion(high_tempo_bias, weight(dyn.high_tempo_bias)))

\* lines 179-185: the offsets `timestamp` the while loop visits, in order
spread_offsets(cfg) ==
    LET imprecision == Millis(cfg.normal_distribution.cutoff)
        duration_per_sample == sample_to_duration(cfg.sample_rate, 1)
    IN  [k \in 1..((2 * imprecision) \div duration_per_sample + 1) |->
            (k - 1) * duration_per_sample - imprecision]

\* the kernel term left out: every offset gets the pair's bare score
normal_value_flat(cfg, dyn, timestamp) == ScoreScale

\* lines 190-200
normal_value(cfg, dyn, timestamp) ==
    IF weight(dyn.normal_distribution_weight) > 0
    THEN FPow(ScoreScale + 2 * 9 * Index(cfg.normal_distribution, timestamp),
              weight(dyn.normal_distribution_weight))
    ELSE ScoreScale

\* line 98: tuple_combinations over the notes, as index pairs
combinations(notes) ==
    {p \in (1..Len(notes)) \X (1..Len(notes)) : p[1] < p[2]}

\* lines 133-140: the pair is scored only if its folded interval has a bin
pair_scored(self, p) ==
    duration_to_index(self.static_bpm_detection_parameters,
        fold(self.notes[p[2]].timestamp - self.notes[p[1]].timestamp,
             self.interval_low, self.interval_high).interval,
        Len(self.histogram_data_points)).some

\* lines 185-206: for each offset the while loop visits, the bin the pair
\* writes to (if any) and the score it adds there
spread(self, dyn, newest, maximum_interval, p) ==
    LET cfg == self.static_bpm_detection_parameters
        offs == spread_offsets(cfg)
        interval == fold(self.notes[p[2]].timestamp - self.notes[p[1]].timestamp,
                         self.interval_low, self.interval_high).interval
        score == intensity(self, dyn, newest, maximum_interval,
                           self.notes[p[1]], self.notes[p[2]])
    IN  [k \in 1..Len(offs) |->
            LET bin == duration_to_index(cfg, offs[k] + interval,
                                         Len(self.histogram_data_points))
            IN  [index |-> bin,
                 value |-> IF bin.some
                           THEN FMul(score, normal_value(cfg, dyn, offs[k]))
                           ELSE 0]]

RECURSIVE sum_bin(_, _, _)
sum_bin(writes, bin, k) ==
    IF k > Len(writes) THEN 0
    ELSE (IF writes[k].index = Some(bin) THEN writes[k].value ELSE 0)
         + sum_bin(writes, bin, k + 1)

RECURSIVE sum_pairs(_, _, _)
sum_pairs(writes, pairs, bin) ==
    IF pairs = {} THEN 0
    ELSE LET p == CHOOSE q \in pairs : TRUE
         IN  sum_bin(writes[p], bin, 1) + sum_pairs(writes, pairs \ {p}, bin)

\* lines 92-208: every scored pair adds (+=) its spread score to the bins
process_combinations(self, dyn, newest, maximum_interval) ==
    LET scored == {p \in combinations(self.notes) : pair_scored(self, p)}
        \* each pair's writes are computed once
        added(writes) ==
            [bin \in 1..Len(self.histogram_data_points) |->
                self.histogram_data_points[bin] + sum_pairs(writes, DOMAIN writes, bin - 1)]
    IN  CHOOSE histogram \in
            {added(writes) :
                writes \in {[p \in scored |->
                                spread(self, dyn, newest, maximum_interval, p)]}} : TRUE

\* a kernel lookup of the pass falls outside the table
kernel_panics(self, dyn) ==
    LET cfg == self.static_bpm_detection_parameters
        offs == spread_offsets(cfg)
    IN  /\ weight(dyn.normal_distribution_weight) > 0
        /\ \E p \in combinations(self.notes) :
              /\ pair_scored(self, p)
              /\ \E k \in 1..Len(offs) :
                    /\ duration_to_index(cfg,
                           offs[k] + fold(self.notes[p[2]].timestamp
                                            - self.notes[p[1]].timestamp,
                                          self.interval_low, self.interval_high).interval,
                           Len(self.histogram_data_points)).some
                    /\ Index_panics(cfg.normal_distribution, offs[k])

\* Vec::fill(0.0) / resize(len, 0.0) of an emptied vector
zeroed(len) == [bin \in 1..len |-> 0]

\* a search that keeps the first maximal element, as min_by would the minimum
max_by_first(histogram) ==
    IF Len(histogram) = 0 THEN None
    ELSE Some((CHOOSE bin \in 1..Len(histogram) :
                 \A other \in 1..Len(histogram) :
                    \/ histogram[other] < histogram[bin]
                    \/ histogram[other] = histogram[bin] /\ bin <= other) - 1)

\* lines 65-70: enumerate().max_by(total_cmp) returns the last maximal element,
\* None on an empty histogram (indices are 0-based)
max_by(histogram) ==
    IF Len(histogram) = 0 THEN None
    ELSE Some((CHOOSE bin \in 1..Len(histogram) :
                 \A other \in 1..Len(histogram) :
                    \/ histogram[other] < histogram[bin]
                    \/ histogram[other] = histogram[bin] /\ other <= bin) - 1)

\* a single `if` instead of the loop pops at most one note
prune_once(notes, now, max_note_age) ==
    IF notes # <<>> /\ now - Head(notes).timestamp > max_note_age
    THEN Tail(notes)
    ELSE notes

\* a loop that also pops a note as old as max_note_age
RECURSIVE prune_inclusive(_, _, _)
prune_inclusive(notes, now, max_note_age) ==
    IF notes = <<>> THEN notes
    ELSE IF now - Head(notes).timestamp >= max_note_age
         THEN prune_inclusive(Tail(notes), now, max_note_age)
         ELSE notes

\* lines 75-85
RECURSIVE prune(_, _, _)
prune(notes, now, max_note_age) ==
    IF notes = <<>> THEN notes
    ELSE IF now - Head(notes).timestamp > max_note_age
         THEN prune(Tail(notes), now, max_note_age)
         ELSE notes

NoBpm == [some |-> FALSE, bpm |-> [n |-> 0, d |-> 1]]
SomeBpm(bpm) == [some |-> TRUE, bpm |-> bpm]

\* the pass without line 55: the bins keep what they hold
fill_skipped(histogram) == histogram

\* line 55: histogram_data_points.fill(0.0)
fill(histogram) == zeroed(Len(histogram))

\* lines 51-88: the estimator's notes and histogram after the call, and the
\* value returned
compute_bpm(self, dyn) ==
    LET filled == [self EXCEPT !.histogram_data_points = fill(@)]
    IN  IF Len(self.notes) = 0
        THEN [notes |-> self.notes,
              histogram_data_points |-> filled.histogram_data_points,
              ret |-> NoBpm]
        ELSE LET now == self.notes[Len(self.notes)].timestamp
                 oldest == Head(self.notes).timestamp
                 maximum_interval == now - oldest
                 \* lines 65-87, on the histogram process_combinations wrote
                 rest(histogram) ==
                     LET winner == max_by(histogram)
                     IN  IF ~winner.some
                         THEN [notes |-> self.notes, histogram_data_points |-> histogram,
                               ret |-> NoBpm]
                         ELSE LET most_probable_interval ==
                                      index_to_duration(
                                          self.static_bpm_detection_parameters, winner.val)
                                  bpm == beat_duration_to_bpm(most_probable_interval)
                                  max_note_age ==
                                      bpm_to_beat_duration(bpm) * dyn.beats_lookback
                              IN  [notes |-> prune(self.notes, now, max_note_age),
                                   histogram_data_points |-> histogram,
                                   ret |-> SomeBpm(bpm)]
             IN  CHOOSE returned \in
                     {rest(histogram) :
                         histogram \in
                             {process_combinations(filled, dyn, now, maximum_interval)}} :
                     TRUE

\* a Saturating deque refuses the new element when it is full
push_back_saturating(notes, midi_message) ==
    IF Len(notes) < NOTE_CAPACITY THEN Append(notes, midi_message) ELSE notes

\* line 48: ArrayDeque<_, NOTE_CAPACITY, Wrapping>::push_back
push_back(notes, midi_message) ==
    IF Len(notes) < NOTE_CAPACITY
    THEN Append(notes, midi_message)
    ELSE Append(Tail(notes), midi_message)

\* ------------------------------------------------------------ input sets
NormalDistributionConfigs ==
    {[std_dev |-> 24, factor |-> 40, cutoff |-> 100, resolution |-> 25]}

StaticConfigs ==
    {[bpm_center |-> c[1] * BpmScale, bpm_range |-> c[2], sample_rate |-> c[3],
      normal_distribution |-> nc] :
        c \in {<<90, 40, 10>>, <<90, 40, 1>>, <<120, 41, 10>>},
        nc \in NormalDistributionConfigs}

Timestamps == {Millis(0), Millis(600), Millis(900), Millis(5000)}

Notes ==
    {[timestamp |-> t, note |-> k[1], velocity |-> k[2]] :
        t \in Timestamps, k \in {<<60, 127>>, <<67, 64>>}}

WeightNames ==
    {"velocity_current_note_weight", "velocity_note_from_weight", "age_weight",
     "octave_distance_weight", "pitch_distance_weight", "multiplier_weight",
     "subdivision_weight", "in_beat_range_weight", "normal_distribution_weight",
     "high_tempo_bias"}

Dyn(lookback, enabled) ==
    [beats_lookback |-> lookback,
     velocity_current_note_weight |->
        [on |-> "velocity_current_note_weight" \in enabled, value |-> 1],
     velocity_note_from_weight |->
        [on |-> "velocity_note_from_weight" \in enabled, value |-> 1],
     age_weight |-> [on |-> "age_weight" \in enabled, value |-> 1],
     octave_distance_weight |-> [on |-> "octave_distance_weight" \in enabled, value |-> 1],
     pitch_distance_weight |-> [on |-> "pitch_distance_weight" \in enabled, value |-> 1],
     multiplier_weight |-> [on |-> "multiplier_weight" \in enabled, value |-> 1],
     subdivision_weight |-> [on |-> "subdivision_weight" \in enabled, value |-> 1],
     in_beat_range_weight |-> [on |-> "in_beat_range_weight" \in enabled, value |-> 1],
     normal_distribution_weight |->
        [on |-> "normal_distribution_weight" \in enabled, value |-> 1],
     high_tempo_bias |-> [on |-> "high_tempo_bias" \in enabled, value |-> 1]]

DynamicConfigs ==
    {Dyn(0, {}),
     Dyn(2, {"in_beat_range_weight", "normal_distribution_weight",
             "velocity_current_note_weight", "pitch_distance_weight"}),
     Dyn(8, {}),
     Dyn(8, {"age_weight", "normal_distribution_weight", "multiplier_weight",
             "subdivision_weight"})}

\* ----------------------------------------------------------------- state
VARIABLES
    static_bpm_detection_parameters,
    interval_high,
    interval_low,
    notes,
    histogram_data_points,
    call,           \* the last call made on the estimator, and what it returned
    pass,           \* the locals of a compute_bpm pass followed loop by loop
    probe,          \* the last call of a function of the duration/index mapping
    worker,         \* the locals of Worker::worker_loop and its position
    channel,        \* the worker's event channel
    clock           \* the time Instant::now() reads, in ms

estimator == <<static_bpm_detection_parameters, interval_high, interval_low, notes,
               histogram_data_points>>

vars == <<static_bpm_detection_parameters, interval_high, interval_low, notes,
          histogram_data_points, call, pass, probe, worker, channel, clock>>

\* the worker thread and its channel
surroundings == <<worker, channel, clock>>

Self ==
    [static_bpm_detection_parameters |-> static_bpm_detection_parameters,
     interval_high |-> interval_high, interval_low |-> interval_low,
     notes |-> notes, histogram_data_points |-> histogram_data_points]

NoNote == [timestamp |-> 0, note |-> 0, velocity |-> 0]

\* `buffered` and `dirty` describe the estimator when the call was made: the
\* number of notes it held, and whether some histogram bin was not zero
Call(op, note, lookback, ret) ==
    [op |-> op, note |-> note, beats_lookback |-> lookback, ret |-> ret,
     buffered |-> Len(notes),
     dirty |-> \E bin \in 1..Len(histogram_data_points) :
                  histogram_data_points[bin] # 0]

NoPass == [pc |-> "idle"]

\* no worker thread runs: the estimator is called directly
NoWorker ==
    /\ worker = [pc |-> "none"]
    /\ channel = [queue |-> <<>>, connected |-> FALSE, sent |-> 0]
    /\ clock = 0

NoProbe ==
    [fn |-> "none", cfg |-> CHOOSE cfg \in StaticConfigs : TRUE, arg |-> 0, len |-> 0,
     out |-> None, bpm |-> [lowest |-> 0, highest |-> 0]]

\* lines 24-35, then the notes `received` pushed with no pass in between
Holding(cfg, received) ==
    /\ static_bpm_detection_parameters = cfg
    /\ interval_low = bpm_to_beat_duration(highest_bpm(cfg))
    /\ interval_high = bpm_to_beat_duration(lowest_bpm(cfg))
    /\ histogram_data_points = zeroed(buffer_size(cfg))
    /\ notes = received

\* lines 24-35
New(cfg) == Holding(cfg, <<>>)

Init ==
    /\ \E cfg \in StaticConfigs : New(cfg)
    /\ call = [op |-> "new", note |-> NoNote, beats_lookback |-> 0, ret |-> NoBpm,
               buffered |-> 0, dirty |-> FALSE]
    /\ pass = NoPass
    /\ NoWorker
    /\ probe = NoProbe

\* resize(len, 0.0) alone keeps the bins the vector already has
resized_without_emptying(histogram, len) ==
    [bin \in 1..len |-> IF bin <= Len(histogram) THEN histogram[bin] ELSE 0]

\* lines 43-44: resize(0, 0.0) empties the vector, resize(len, 0.0) refills it
resized(histogram, len) == zeroed(len)

\* lines 37-45
UpdateStaticParameters(cfg) ==
    /\ static_bpm_detection_parameters' = cfg
    /\ interval_low' = bpm_to_beat_duration(highest_bpm(cfg))
    /\ interval_high' = bpm_to_beat_duration(lowest_bpm(cfg))
    /\ histogram_data_points' = resized(histogram_data_points, buffer_size(cfg))
    /\ call' = Call("update_static_parameters", NoNote, 0, NoBpm)
    /\ UNCHANGED <<notes, pass, surroundings, probe>>

\* lines 47-49; notes arrive with non-decreasing timestamps
ReceiveMidiMessage(midi_message) ==
    /\ Len(notes) < MaxNotes
    /\ notes # <<>> => midi_message.timestamp >= notes[Len(notes)].timestamp
    /\ notes' = push_back(notes, midi_message)
    /\ call' = Call("receive_midi_message", midi_message, 0, NoBpm)
    /\ UNCHANGED <<static_bpm_detection_parameters, interval_high, interval_low,
                   histogram_data_points, pass, surroundings, probe>>

\* lines 51-88
ComputeBpm(dyn) ==
    LET r == compute_bpm(Self, dyn)
    IN  /\ notes' = r.notes
        /\ histogram_data_points' = r.histogram_data_points
        /\ call' = Call("compute_bpm", NoNote, dyn.beats_lookback, r.ret)
        /\ UNCHANGED <<static_bpm_detection_parameters, interval_high, interval_low,
                       pass, surroundings, probe>>

Next ==
    \/ \E cfg \in StaticConfigs : UpdateStaticParameters(cfg)
    \/ \E midi_message \in Notes : ReceiveMidiMessage(midi_message)
    \/ \E dyn \in DynamicConfigs : ComputeBpm(dyn)

Spec == Init /\ [][Next]_vars

\* ------------------------------------------- the NoteWindow at capacity
\* A window that already holds close to NOTE_CAPACITY notes (received at
\* timestamp 0 without a pass in between), then MaxAtCapacity more notes.
MaxAtCapacity == 3

Filler == [timestamp |-> Millis(0), note |-> 0, velocity |-> 1]

InitAtCapacity ==
    /\ \E held \in (NOTE_CAPACITY - 2)..NOTE_CAPACITY :
          /\ \E cfg \in StaticConfigs : Holding(cfg, [k \in 1..held |-> Filler])
          /\ call = [op |-> "receive_midi_message", note |-> Filler,
                     beats_lookback |-> 0, ret |-> NoBpm, buffered |-> held - 1,
                     dirty |-> FALSE]
    /\ pass = NoPass
    /\ NoWorker
    /\ probe = NoProbe

ReceiveAtCapacity(midi_message) ==
    /\ notes[Len(notes) - MaxAtCapacity + 1] = Filler
    /\ midi_message.timestamp >= notes[Len(notes)].timestamp
    /\ notes' = push_back(notes, midi_message)
    /\ call' = Call("receive_midi_message", midi_message, 0, NoBpm)
    /\ UNCHANGED <<static_bpm_detection_parameters, interval_high, interval_low,
                   histogram_data_points, pass, surroundings, probe>>

NextAtCapacity == \E midi_message \in Notes : ReceiveAtCapacity(midi_message)

SpecAtCapacity == InitAtCapacity /\ [][NextAtCapacity]_vars

\* ------------------------------------- the duration/index mapping alone
\* bpm.rs called on its own: the inputs are drawn first, then one function of
\* StaticBPMDetectionConfig is applied to them.
MaxProbeIndex == 12

MapConfigs ==
    {[bpm_center |-> c, bpm_range |-> r, sample_rate |-> sr,
      normal_distribution |-> nc] :
        c \in {1 * BpmScale, BpmScale + 50, 90 * BpmScale,
               120 * BpmScale + 37, 150 * BpmScale},
        r \in {1, 40, 41, 100},
        sr \in {1, 7, 10, 450, 1000},
        nc \in NormalDistributionConfigs}

ProbeDurations ==
    {Millis(ms) : ms \in {-100, 0, 1, 300, 450, 545, 600, 700, 857, 1000, 60000}}

ProbeArgs(cfg) ==
    (0..MaxProbeIndex) \cup ProbeDurations
        \cup {buffer_size(cfg) - 1, buffer_size(cfg)}

ProbeLens(cfg) == {0, 1, buffer_size(cfg)}

NoBounds == [lowest |-> 0, highest |-> 0]

Probe(fn, cfg, arg, len, out, bpm) ==
    [fn |-> fn, cfg |-> cfg, arg |-> arg, len |-> len, out |-> out, bpm |-> bpm]

InitMapping ==
    /\ \E cfg \in StaticConfigs : cfg.bpm_range = 40 /\ cfg.sample_rate = 10 /\ New(cfg)
    /\ call = [op |-> "new", note |-> NoNote, beats_lookback |-> 0, ret |-> NoBpm,
               buffered |-> 0, dirty |-> FALSE]
    /\ pass = NoPass
    /\ NoWorker
    /\ \E cfg \in MapConfigs : \E arg \in ProbeArgs(cfg) : \E len \in ProbeLens(cfg) :
          probe = Probe("input", cfg, arg, len, None, NoBounds)

\* lines 396-401
CallDurationToIndex ==
    /\ probe.fn = "input"
    /\ probe' = Probe("duration_to_index", probe.cfg, probe.arg, probe.len,
                      duration_to_index(probe.cfg, probe.arg, probe.len), NoBounds)
    /\ UNCHANGED <<estimator, call, pass, surroundings>>

\* lines 396-414: a bin index mapped to its duration and back
CallRoundTrip ==
    /\ probe.fn = "input"
    /\ probe.arg \in 0..(buffer_size(probe.cfg) - 1)
    /\ probe' = Probe("round_trip", probe.cfg, probe.arg, buffer_size(probe.cfg),
                      duration_to_index(probe.cfg,
                                        index_to_duration(probe.cfg, probe.arg),
                                        buffer_size(probe.cfg)), NoBounds)
    /\ UNCHANGED <<estimator, call, pass, surroundings>>

\* lines 403-409: `out` is None when the call panics
CallBufferSize ==
    /\ probe.fn = "input"
    /\ probe' = Probe("buffer_size", probe.cfg, probe.arg, probe.len,
                      IF buffer_size_panics(probe.cfg) THEN None
                      ELSE Some(buffer_size(probe.cfg)), NoBounds)
    /\ UNCHANGED <<estimator, call, pass, surroundings>>

\* lines 29-38: the window's bounds, in units of 1 / BpmScale bpm
CallBpmBounds ==
    /\ probe.fn = "input"
    /\ probe' = Probe("bpm_bounds", probe.cfg, probe.arg, probe.len, None,
                      [lowest |-> lowest_bpm(probe.cfg).n,
                       highest |-> highest_bpm(probe.cfg).n])
    /\ UNCHANGED <<estimator, call, pass, surroundings>>

NextMapping ==
    \/ CallDurationToIndex
    \/ CallRoundTrip
    \/ CallBufferSize
    \/ CallBpmBounds

SpecMapping == InitMapping /\ [][NextMapping]_vars

\* ------------------------------------------------- the kernel alone
\* normal_distribution.rs called on its own: a kernel configuration and an
\* offset within the cutoff are drawn, then the table is read at the offset
\* and at its opposite.
KernelConfigs ==
    {[std_dev |-> sd, factor |-> 40, cutoff |-> c[1], resolution |-> c[2]] :
        sd \in {4, 24},
        c \in {<<1, 1>>, <<10, 3>>, <<20, 4>>, <<100, 25>>, <<100, 30>>, <<50, 1000>>}}

\* Index<Duration>::index, None when the slice access panics
lookup(nc, duration) ==
    IF Index_panics(nc, duration) THEN None ELSE Some(Index(nc, duration))

InitKernel ==
    /\ \E cfg \in StaticConfigs : cfg.bpm_range = 40 /\ cfg.sample_rate = 10 /\ New(cfg)
    /\ call = [op |-> "new", note |-> NoNote, beats_lookback |-> 0, ret |-> NoBpm,
               buffered |-> 0, dirty |-> FALSE]
    /\ pass = NoPass
    /\ NoWorker
    /\ \E nc \in KernelConfigs : \E offset \in 0..Millis(nc.cutoff) :
          probe = [fn |-> "input", nc |-> nc, offset |-> offset,
                   plus |-> None, minus |-> None]

\* lines 13-19, at +offset and at -offset
CallIndex ==
    /\ probe.fn = "input"
    /\ probe' = [probe EXCEPT !.fn = "index",
                              !.plus = lookup(probe.nc, probe.offset),
                              !.minus = lookup(probe.nc, -probe.offset)]
    /\ UNCHANGED <<estimator, call, pass, surroundings>>

NextKernel == CallIndex

SpecKernel == InitKernel /\ [][NextKernel]_vars

\* ------------------------------------------------- the folding alone
\* lines 100-131 on their own: a search window and the raw interval of a pair
\* are drawn, then the interval is folded.
FoldConfigs == {cfg \in MapConfigs : cfg.sample_rate = 10}

FoldIntervals ==
    {Millis(ms) : ms \in {0, 1, 2, 3, 100, 300, 545, 600, 857, 1000, 5000,
                          160000, 1000000}}

InitFold ==
    /\ \E cfg \in StaticConfigs : cfg.bpm_range = 40 /\ cfg.sample_rate = 10 /\ New(cfg)
    /\ call = [op |-> "new", note |-> NoNote, beats_lookback |-> 0, ret |-> NoBpm,
               buffered |-> 0, dirty |-> FALSE]
    /\ pass = NoPass
    /\ NoWorker
    /\ \E cfg \in FoldConfigs : \E interval \in FoldIntervals :
          probe = [fn |-> "input", raw |-> interval,
                   interval_low |-> bpm_to_beat_duration(highest_bpm(cfg)),
                   interval_high |-> bpm_to_beat_duration(lowest_bpm(cfg)),
                   out |-> fold(0, 0, 0)]

\* lines 100-131
CallFold ==
    /\ probe.fn = "input"
    /\ probe' = [probe EXCEPT
                    !.fn = "fold",
                    !.out = fold(probe.raw, probe.interval_low, probe.interval_high)]
    /\ UNCHANGED <<estimator, call, pass, surroundings>>

NextFold == CallFold

SpecFold == InitFold /\ [][NextFold]_vars

\* ------------------------------------- two runs with one weight enabled
\* Two estimators built from the same configuration hold buffers with the
\* same timestamps; compute_bpm is then called on both with the same dynamic
\* parameters, of which exactly one weight is On.
MaxIsolatedNotes == 2

IsolationTimestamps == {Millis(0), Millis(600), Millis(900)}
IsolationAttributes == {<<60, 127>>, <<60, 64>>, <<79, 127>>, <<79, 64>>}

\* lines 142-153: the attribute of a note a weight's feature reads, if any
feeds(w) ==
    IF w \in {"velocity_current_note_weight", "velocity_note_from_weight"}
    THEN "velocity"
    ELSE IF w \in {"octave_distance_weight", "pitch_distance_weight"}
         THEN "note"
         ELSE "none"

\* lines 24-35 and 47-49: an estimator that received `received`
Estimator(cfg, received) ==
    [static_bpm_detection_parameters |-> cfg,
     interval_low |-> bpm_to_beat_duration(highest_bpm(cfg)),
     interval_high |-> bpm_to_beat_duration(lowest_bpm(cfg)),
     notes |-> received,
     histogram_data_points |-> zeroed(buffer_size(cfg))]

Buffer(ts, attrs) ==
    [i \in 1..Len(ts) |->
        [timestamp |-> ts[i], note |-> attrs[i][1], velocity |-> attrs[i][2]]]

InitIsolation ==
    /\ \E cfg \in StaticConfigs : cfg.bpm_range = 40 /\ cfg.sample_rate = 10 /\ New(cfg)
    /\ call = [op |-> "new", note |-> NoNote, beats_lookback |-> 0, ret |-> NoBpm,
               buffered |-> 0, dirty |-> FALSE]
    /\ pass = NoPass
    /\ NoWorker
    /\ \E w \in WeightNames : \E n \in 2..MaxIsolatedNotes :
       \E ts \in [1..n -> IsolationTimestamps] :
       \E one \in [1..n -> IsolationAttributes] :
       \E other \in [1..n -> IsolationAttributes] :
          /\ \A i \in 1..(n - 1) : ts[i] <= ts[i + 1]
          /\ \A i \in 1..n :
                /\ feeds(w) # "note" => one[i][1] = 60
                /\ feeds(w) # "velocity" => one[i][2] = 127
                /\ feeds(w) = "note" => other[i][1] = one[i][1]
                /\ feeds(w) = "velocity" => other[i][2] = one[i][2]
          /\ probe = [fn |-> "input", enabled |-> w,
                       one |-> Estimator(static_bpm_detection_parameters,
                                         Buffer(ts, one)),
                       other |-> Estimator(static_bpm_detection_parameters,
                                           Buffer(ts, other)),
                       out_one |-> [notes |-> <<>>, histogram_data_points |-> <<>>,
                                    ret |-> NoBpm],
                       out_other |-> [notes |-> <<>>, histogram_data_points |-> <<>>,
                                      ret |-> NoBpm]]

\* lines 51-88, on each of the two estimators
ComputeBoth ==
    /\ probe.fn = "input"
    /\ probe' = [probe EXCEPT
                    !.fn = "compute_bpm",
                    !.out_one = compute_bpm(probe.one, Dyn(8, {probe.enabled})),
                    !.out_other = compute_bpm(probe.other, Dyn(8, {probe.enabled}))]
    /\ UNCHANGED <<estimator, call, pass, surroundings>>

NextIsolation == ComputeBoth

SpecIsolation == InitIsolation /\ [][NextIsolation]_vars

\* ------------------------------------------- two notes, default weights
\* An estimator searching [60, 180] bpm (bpm_center 120, bpm_range 120)
\* receives two notes and is asked for the tempo with every weight On and
\* beats_lookback 8, as DynamicBPMDetectionConfig::default() has them. The
\* sample rates are rates whose sample period is a whole number of ticks, and
\* the kernel is the default one with the resolution of 0.6 ms taken as 1 ms
\* (finer than the sample period, as with the default rate of 450).
TwoNoteConfigs ==
    {[bpm_center |-> 120 * BpmScale, bpm_range |-> 120, sample_rate |-> sr,
      normal_distribution |->
          [std_dev |-> 24, factor |-> 40, cutoff |-> 100, resolution |-> 1]] :
        sr \in {100, 250}}

TwoNoteNotes ==
    {[timestamp |-> Millis(t), note |-> k[1], velocity |-> k[2]] :
        t \in {0, 500, 1000}, k \in {<<60, 1>>, <<66, 20>>}}

\* bpm.rs lines 260-276
DefaultDynamicConfig == Dyn(8, WeightNames)

InitTwoNotes ==
    /\ \E cfg \in TwoNoteConfigs : New(cfg)
    /\ call = [op |-> "new", note |-> NoNote, beats_lookback |-> 0, ret |-> NoBpm,
               buffered |-> 0, dirty |-> FALSE]
    /\ pass = NoPass
    /\ NoWorker
    /\ probe = NoProbe

ReceiveOneOfTwo(midi_message) ==
    /\ Len(notes) < 2
    /\ ReceiveMidiMessage(midi_message)

NextTwoNotes ==
    \/ \E midi_message \in TwoNoteNotes : ReceiveOneOfTwo(midi_message)
    \/ ComputeBpm(DefaultDynamicConfig)

SpecTwoNotes == InitTwoNotes /\ [][NextTwoNotes]_vars

\* ------------------------------------------- a pass followed loop by loop
\* compute_bpm is straight-line code run by the one thread that owns the
\* estimator: nothing is received while a pass runs, and a pass that has
\* started keeps taking its next step.
LoopConfigs ==
    {[bpm_center |-> c[1] * BpmScale, bpm_range |-> c[2], sample_rate |-> c[3],
      normal_distribution |-> c[4]] :
        c \in {<<90, 40, 10, [std_dev |-> 24, factor |-> 40, cutoff |-> 100,
                              resolution |-> 25]>>,
               <<20, 1, 10, [std_dev |-> 24, factor |-> 40, cutoff |-> 100,
                             resolution |-> 25]>>,
               <<112, 24, 1000, [std_dev |-> 4, factor |-> 40, cutoff |-> 1,
                                 resolution |-> 1]>>}}

LoopNotes ==
    {[timestamp |-> Millis(t), note |-> 60, velocity |-> 100] : t \in {0, 2, 600, 5000}}

LoopDynamicConfigs ==
    {Dyn(0, {}), Dyn(2, {"in_beat_range_weight", "normal_distribution_weight"})}

\* the locals of compute_bpm and process_combinations; halved, doubled,
\* written and popped count the iterations of the four loops
IdlePass ==
    [pc |-> "idle", dyn |-> Dyn(0, {}), now |-> 0, maximum_interval |-> 0,
     from |-> 0, to |-> 0, interval |-> 0, in_range |-> NaN, multiplier |-> NaN,
     subdivision |-> NaN, budget |-> 0, intensity |-> 0, timestamp |-> 0,
     bpm |-> NoBpm.bpm, max_note_age |-> 0,
     halved |-> 0, doubled |-> 0, written |-> 0, popped |-> 0]

\* the pass has returned; the iteration counts of the pass stay readable
Returned(p) ==
    [IdlePass EXCEPT !.halved = p.halved, !.doubled = p.doubled,
                     !.written = p.written, !.popped = p.popped]

InitLoops ==
    /\ \E cfg \in LoopConfigs : New(cfg)
    /\ call = [op |-> "new", note |-> NoNote, beats_lookback |-> 0, ret |-> NoBpm,
               buffered |-> 0, dirty |-> FALSE]
    /\ pass = IdlePass
    /\ NoWorker
    /\ probe = NoProbe

ReceiveBetweenPasses(midi_message) ==
    /\ pass.pc = "idle"
    /\ ReceiveMidiMessage(midi_message)

\* lines 55-63 and 98: fill, `back()?` / `front()?`, the first combination
BeginPass(dyn) ==
    /\ pass.pc = "idle"
    /\ histogram_data_points' = zeroed(Len(histogram_data_points))
    /\ call' = Call("compute_bpm", NoNote, dyn.beats_lookback, NoBpm)
    /\ pass' = IF notes = <<>>
               THEN IdlePass
               ELSE [IdlePass EXCEPT
                        !.pc = IF Len(notes) >= 2 THEN "pair" ELSE "max_by",
                        !.dyn = dyn,
                        !.now = notes[Len(notes)].timestamp,
                        !.maximum_interval =
                            notes[Len(notes)].timestamp - Head(notes).timestamp,
                        !.from = 1, !.to = 2]
    /\ UNCHANGED <<static_bpm_detection_parameters, interval_high, interval_low,
                   notes, probe, surroundings>>

\* line 98: tuple_combinations goes on with the next pair, or is exhausted
next_combination(p) ==
    IF p.to < Len(notes) THEN [p EXCEPT !.pc = "pair", !.to = p.to + 1]
    ELSE IF p.from + 1 < Len(notes)
         THEN [p EXCEPT !.pc = "pair", !.from = p.from + 1, !.to = p.from + 2]
         ELSE [p EXCEPT !.pc = "max_by"]

\* lines 99-108 and 116-117: the pair's interval and the branch it takes
TakePair ==
    /\ pass.pc = "pair"
    /\ LET interval == notes[pass.to].timestamp - notes[pass.from].timestamp
           fresh == [pass EXCEPT !.interval = interval, !.in_range = One,
                                 !.multiplier = NaN, !.subdivision = NaN]
       IN  pass' = IF interval > interval_high
                   THEN [fresh EXCEPT !.pc = "halving", !.in_range = NaN]
                   ELSE IF interval > Millis(1) /\ interval < interval_low
                   THEN [fresh EXCEPT !.pc = "doubling", !.in_range = NaN,
                                      !.budget = DoublingBudget]
                   ELSE [fresh EXCEPT !.pc = "folded"]
    /\ UNCHANGED <<estimator, call, probe, surroundings>>

\* lines 109-115: one iteration of the halving loop
HalvingStep ==
    /\ pass.pc = "halving"
    /\ LET i2 == pass.interval \div 2
           m2 == IF pass.multiplier.nan THEN One ELSE HalfOf(pass.multiplier)
       IN  pass' = [pass EXCEPT !.interval = i2, !.multiplier = m2,
                                !.halved = pass.halved + 1,
                                !.pc = IF i2 < interval_high THEN "folded"
                                       ELSE "halving"]
    /\ UNCHANGED <<estimator, call, probe, surroundings>>

\* lines 118-127: one iteration of the doubling loop, and the test after it
DoublingStep ==
    /\ pass.pc = "doubling"
    /\ LET i2 == pass.interval * 2
           s2 == IF pass.subdivision.nan THEN One ELSE HalfOf(pass.subdivision)
           last == i2 > interval_low \/ pass.budget = 1
       IN  pass' = [pass EXCEPT !.interval = i2,
                                !.subdivision = IF last /\ i2 < interval_low
                                                THEN NaN ELSE s2,
                                !.budget = pass.budget - 1,
                                !.doubled = pass.doubled + 1,
                                !.pc = IF last THEN "folded" ELSE "doubling"]
    /\ UNCHANGED <<estimator, call, probe, surroundings>>

\* lines 133-183: a pair whose folded interval has no bin is skipped, the
\* others are scored and their spreading starts at -imprecision
ScorePair ==
    /\ pass.pc = "folded"
    /\ pass' =
          IF ~duration_to_index(static_bpm_detection_parameters, pass.interval,
                                Len(histogram_data_points)).some
          THEN next_combination(pass)
          ELSE [pass EXCEPT
                   !.pc = "spreading",
                   !.intensity = intensity(Self, pass.dyn, pass.now,
                                           pass.maximum_interval,
                                           notes[pass.from], notes[pass.to]),
                   !.timestamp =
                       -Millis(static_bpm_detection_parameters.normal_distribution.cutoff)]
    /\ UNCHANGED <<estimator, call, probe, surroundings>>

\* lines 185-206: one iteration of the spreading loop, or its exit
SpreadStep ==
    /\ pass.pc = "spreading"
    /\ LET cfg == static_bpm_detection_parameters
           imprecision == Millis(cfg.normal_distribution.cutoff)
           duration_per_sample == sample_to_duration(cfg.sample_rate, 1)
           bin == duration_to_index(cfg, pass.timestamp + pass.interval,
                                    Len(histogram_data_points))
       IN  IF pass.timestamp <= imprecision
           THEN /\ histogram_data_points' =
                      IF bin.some
                      THEN [histogram_data_points EXCEPT ![bin.val + 1] =
                               @ + FMul(pass.intensity,
                                        normal_value(cfg, pass.dyn, pass.timestamp))]
                      ELSE histogram_data_points
                /\ pass' = [pass EXCEPT !.timestamp = @ + duration_per_sample,
                                        !.written = @ + 1]
           ELSE /\ pass' = next_combination(pass)
                /\ UNCHANGED histogram_data_points
    /\ UNCHANGED <<static_bpm_detection_parameters, interval_high, interval_low,
                   notes, call, probe, surroundings>>

\* lines 65-73: the winning bin (`?` returns None on an empty histogram), the
\* bpm and the horizon
MaxBy ==
    /\ pass.pc = "max_by"
    /\ LET winner == max_by(histogram_data_points)
           bpm == beat_duration_to_bpm(
                      index_to_duration(static_bpm_detection_parameters, winner.val))
       IN  IF ~winner.some
           THEN /\ pass' = Returned(pass)
                /\ call' = [call EXCEPT !.ret = NoBpm]
           ELSE /\ pass' = [pass EXCEPT
                               !.pc = "pruning", !.bpm = bpm,
                               !.max_note_age = bpm_to_beat_duration(bpm)
                                                  * pass.dyn.beats_lookback]
                /\ UNCHANGED call
    /\ UNCHANGED <<estimator, probe, surroundings>>

\* `continue` without pop_front: the loop tests the same front note again
PruneStep_without_pop ==
    /\ pass.pc = "pruning"
    /\ IF notes # <<>> /\ pass.now - Head(notes).timestamp > pass.max_note_age
       THEN UNCHANGED <<notes, pass, surroundings, call>>
       ELSE /\ pass' = Returned(pass)
            /\ call' = [call EXCEPT !.ret = SomeBpm(pass.bpm)]
            /\ UNCHANGED notes
    /\ UNCHANGED <<static_bpm_detection_parameters, interval_high, interval_low,
                   histogram_data_points, probe, surroundings>>

\* lines 75-87: one iteration of the pruning loop, or the return
PruneStep ==
    /\ pass.pc = "pruning"
    /\ IF notes # <<>> /\ pass.now - Head(notes).timestamp > pass.max_note_age
       THEN /\ notes' = Tail(notes)
            /\ pass' = [pass EXCEPT !.popped = @ + 1]
            /\ UNCHANGED call
       ELSE /\ pass' = Returned(pass)
            /\ call' = [call EXCEPT !.ret = SomeBpm(pass.bpm)]
            /\ UNCHANGED notes
    /\ UNCHANGED <<static_bpm_detection_parameters, interval_high, interval_low,
                   histogram_data_points, probe, surroundings>>

PassStep ==
    \/ TakePair
    \/ HalvingStep
    \/ DoublingStep
    \/ ScorePair
    \/ SpreadStep
    \/ MaxBy
    \/ PruneStep

NextLoops ==
    \/ \E midi_message \in LoopNotes : ReceiveBetweenPasses(midi_message)
    \/ \E dyn \in LoopDynamicConfigs : BeginPass(dyn)
    \/ PassStep

SpecLoops == InitLoops /\ [][NextLoops]_vars /\ WF_vars(PassStep)

\* ------------------------------------------------------ the worker thread
\* worker.rs, Worker::worker_loop: the thread that owns the estimator, and the
\* producers that send it events while it runs.

\* line 62 and line 77: StdDuration::from_millis(50)
DebounceMs == 50

\* the clock advances by ClockStep ms at a time, up to MaxClock
ClockStep == 25
MaxClock == 100

\* the producers send at most MaxEvents events
MaxEvents == 3

WorkerStaticConfigs ==
    {cfg \in StaticConfigs : cfg.sample_rate = 10}

WorkerDynamicConfigs ==
    {Dyn(8, {}),
     Dyn(2, {"in_beat_range_weight", "normal_distribution_weight",
             "velocity_current_note_weight", "pitch_distance_weight"})}

InitialStaticConfig == CHOOSE cfg \in WorkerStaticConfigs : cfg.bpm_center = 90 * BpmScale
InitialDynamicConfig == Dyn(8, {})

\* worker_event.rs lines 7-14
WorkerEvent(kind, midi_message, dyn, cfg) ==
    [kind |-> kind, midi_message |-> midi_message, dynamic |-> dyn, static |-> cfg]

\* the note a producer sends after `sent` events: one beat of 100 bpm later each
NextNote(sent) == [timestamp |-> Millis(600 * sent), note |-> 60, velocity |-> 127]

WorkerEvents(sent) ==
    {WorkerEvent("TimedMidiNoteOn", NextNote(sent), InitialDynamicConfig, InitialStaticConfig)}
    \cup {WorkerEvent(kind, NoNote, InitialDynamicConfig, InitialStaticConfig) :
             kind \in {"TimingClock", "Play", "Stop"}}
    \cup {WorkerEvent("DynamicBPMDetectionConfig", NoNote, dyn, InitialStaticConfig) :
             dyn \in WorkerDynamicConfigs \ {InitialDynamicConfig}}
    \cup {WorkerEvent("StaticBPMDetectionConfig", NoNote, InitialDynamicConfig, cfg) :
             cfg \in WorkerStaticConfigs}

\* `received_static` keeps the static configurations the worker was handed
\* since the last one it applied, and `applied.received` those the last
\* application found.
\* what an iteration has done so far: events taken from the channel, note-ons
\* among them, note-ons handed to the estimator, calls of compute_bpm, and
\* whether the channel was seen empty after the last event taken
FreshIteration ==
    [drained |-> 0, note_ons |-> 0, handed |-> 0, computed |-> 0, seen_empty |-> FALSE]

\* lines 55-58, at the top of the first iteration
InitWorker ==
    /\ New(InitialStaticConfig)
    /\ call = [op |-> "new", note |-> NoNote, beats_lookback |-> 0, ret |-> NoBpm,
               buffered |-> 0, dirty |-> FALSE]
    /\ pass = NoPass
    /\ probe = NoProbe
    /\ worker = [pc |-> "recv",
                 worker_event |-> FALSE,
                 scheduled_bpm_detection_config_change |-> None,
                 scheduled_received_at |-> 0,
                 received_static |-> <<>>,
                 schedule_evaluate_bpm |-> None,
                 buffered_events |-> <<>>,
                 evaluate_bpm |-> FALSE,
                 dynamic_bpm_detection_config |-> InitialDynamicConfig,
                 playback |-> <<>>,
                 received_bpm |-> NoBpm,
                 applied |-> [some |-> FALSE, at |-> 0, received_at |-> 0, armed_at |-> 0,
                              received |-> <<>>],
                 iteration |-> FreshIteration]
    /\ channel = [queue |-> <<>>, connected |-> TRUE, sent |-> 0]
    /\ clock = 0

\* Sender::send by one of the producers
Send(worker_event) ==
    /\ channel.connected
    /\ channel.sent < MaxEvents
    /\ channel' = [channel EXCEPT !.queue = Append(@, worker_event), !.sent = @ + 1]
    /\ UNCHANGED <<estimator, call, pass, probe, worker, clock>>

\* the last Sender is dropped
Disconnect ==
    /\ channel.connected
    /\ channel' = [channel EXCEPT !.connected = FALSE]
    /\ UNCHANGED <<estimator, call, pass, probe, worker, clock>>

\* time passes; nothing reads the clock while no evaluation is scheduled, and
\* past MaxClock it is followed only until the scheduled evaluation is due
Tick ==
    /\ worker.schedule_evaluate_bpm.some
    /\ clock < MaxClock \/ clock - worker.schedule_evaluate_bpm.val <= DebounceMs
    /\ clock' = clock + ClockStep
    /\ UNCHANGED <<estimator, call, pass, probe, worker, channel>>

\* Instant::elapsed
elapsed(instant) == clock - instant

\* line 60: an iteration starts
begun(w) == [w EXCEPT !.iteration = FreshIteration]

\* the event at the head of the channel is taken into this iteration
taken(w) ==
    [w EXCEPT !.iteration.drained = @ + 1,
              !.iteration.note_ons =
                  @ + (IF Head(channel.queue).kind = "TimedMidiNoteOn" THEN 1 ELSE 0),
              !.iteration.seen_empty = FALSE]

\* lines 61-73: recv_timeout while an evaluation is scheduled, recv otherwise.
\* Both return a pending event first, fail once the channel is empty and
\* disconnected, and recv_timeout gives up when wait_for has run out.
Recv ==
    /\ worker.pc = "recv"
    /\ IF channel.queue # <<>>
       THEN /\ worker' = [taken(begun(worker)) EXCEPT
                              !.pc = "expiry", !.worker_event = TRUE,
                              !.buffered_events = <<Head(channel.queue)>>]
            /\ channel' = [channel EXCEPT !.queue = Tail(@)]
       ELSE IF ~channel.connected
       THEN /\ worker' = [worker EXCEPT !.pc = "stopped"]
            /\ UNCHANGED channel
       ELSE /\ worker.schedule_evaluate_bpm.some
            /\ elapsed(worker.schedule_evaluate_bpm.val) >= DebounceMs
            /\ worker' = [begun(worker) EXCEPT
                              !.pc = "expiry", !.worker_event = FALSE,
                              !.iteration.seen_empty = TRUE]
            /\ UNCHANGED channel
    /\ UNCHANGED <<estimator, call, pass, probe, clock>>

\* line 77 without the comparison: any scheduled evaluation is due
expired_at_once(w) ==
    w.schedule_evaluate_bpm.some

\* line 77
expired(w) ==
    /\ w.schedule_evaluate_bpm.some
    /\ elapsed(w.schedule_evaluate_bpm.val) > DebounceMs

\* lines 78-83 with as_ref() for take(): the pending configuration stays
after_expiry_kept(w) ==
    [w EXCEPT !.pc = IF w.worker_event THEN "drain" ELSE "evaluate",
              !.evaluate_bpm = expired(w),
              !.schedule_evaluate_bpm = IF expired(w) THEN None ELSE @]

\* lines 78-83, and line 85
after_expiry(w) ==
    [w EXCEPT !.pc = IF w.worker_event THEN "drain" ELSE "evaluate",
              !.evaluate_bpm = expired(w),
              !.schedule_evaluate_bpm = IF expired(w) THEN None ELSE @,
              !.scheduled_bpm_detection_config_change = IF expired(w) THEN None ELSE @]

\* lines 75-83: the scheduled evaluation is due; the pending static
\* configuration, if any, is applied by update_static_config
Expiry ==
    /\ worker.pc = "expiry"
    /\ IF expired(worker) /\ worker.scheduled_bpm_detection_config_change.some
       THEN LET cfg == worker.scheduled_bpm_detection_config_change.val
            IN  /\ static_bpm_detection_parameters' = cfg
                /\ interval_low' = bpm_to_beat_duration(highest_bpm(cfg))
                /\ interval_high' = bpm_to_beat_duration(lowest_bpm(cfg))
                /\ histogram_data_points' = resized(histogram_data_points, buffer_size(cfg))
                /\ call' = Call("update_static_parameters", NoNote, 0, NoBpm)
                /\ worker' = [after_expiry(worker) EXCEPT
                                  !.applied = [some |-> TRUE, at |-> clock,
                                               received_at |-> worker.scheduled_received_at,
                                               armed_at |-> worker.schedule_evaluate_bpm.val,
                                               received |-> worker.received_static],
                                  !.received_static = <<>>]
                /\ UNCHANGED notes
       ELSE /\ worker' = after_expiry(worker)
            /\ UNCHANGED <<estimator, call>>
    /\ UNCHANGED <<pass, probe, channel, clock>>

\* line 88 with a single try_recv: the events behind the first stay pending
TryIterOnce ==
    /\ worker.pc = "drain"
    /\ worker' = [worker EXCEPT !.pc = "dispatch"]
    /\ UNCHANGED <<estimator, call, pass, probe, channel, clock>>

\* line 88: try_iter takes the pending events one by one until try_recv fails
TryIter ==
    /\ worker.pc = "drain"
    /\ IF channel.queue # <<>>
       THEN /\ worker' = [taken(worker) EXCEPT
                              !.buffered_events = Append(@, Head(channel.queue))]
            /\ channel' = [channel EXCEPT !.queue = Tail(@)]
       ELSE /\ worker' = [worker EXCEPT !.pc = "dispatch", !.iteration.seen_empty = TRUE]
            /\ UNCHANGED channel
    /\ UNCHANGED <<estimator, call, pass, probe, clock>>

\* lines 109-111 and 115-117 left out: a change schedules nothing
unscheduled(instant) == instant

\* lines 109-111 and 115-117
schedule(instant) == IF instant.some THEN instant ELSE Some(clock)

\* lines 90-120: the next buffered event is dispatched
Dispatch ==
    /\ worker.pc = "dispatch"
    /\ IF worker.buffered_events = <<>>
       THEN /\ worker' = [worker EXCEPT !.pc = "evaluate"]
            /\ UNCHANGED <<estimator, call>>
       ELSE LET worker_event == Head(worker.buffered_events)
                rest == [worker EXCEPT !.buffered_events = Tail(@)]
            IN  IF worker_event.kind = "TimedMidiNoteOn"
                THEN /\ notes' = push_back(notes, worker_event.midi_message)
                     /\ call' = Call("receive_midi_message", worker_event.midi_message,
                                     0, NoBpm)
                     /\ worker' = [rest EXCEPT !.evaluate_bpm = TRUE,
                                               !.iteration.handed = @ + 1]
                     /\ UNCHANGED <<static_bpm_detection_parameters, interval_high,
                                    interval_low, histogram_data_points>>
                ELSE /\ worker' =
                            IF worker_event.kind = "TimingClock"
                            THEN rest
                            ELSE IF worker_event.kind \in {"Play", "Stop"}
                            THEN [rest EXCEPT !.playback = Append(@, worker_event.kind)]
                            ELSE IF worker_event.kind = "DynamicBPMDetectionConfig"
                            THEN [rest EXCEPT
                                    !.dynamic_bpm_detection_config = worker_event.dynamic,
                                    !.schedule_evaluate_bpm = schedule(@)]
                            ELSE [rest EXCEPT
                                    !.scheduled_bpm_detection_config_change =
                                        Some(worker_event.static),
                                    !.scheduled_received_at = clock,
                                    !.received_static = Append(@, worker_event.static),
                                    !.schedule_evaluate_bpm = schedule(@)]
                     /\ UNCHANGED <<estimator, call>>
    /\ UNCHANGED <<pass, probe, channel, clock>>

\* lines 123-136, and back to the top of the loop
Evaluate ==
    /\ worker.pc = "evaluate"
    /\ IF worker.evaluate_bpm
       THEN \E r \in {compute_bpm(Self, worker.dynamic_bpm_detection_config)} :
                /\ notes' = r.notes
                /\ histogram_data_points' = r.histogram_data_points
                /\ call' = Call("compute_bpm", NoNote,
                                worker.dynamic_bpm_detection_config.beats_lookback, r.ret)
                /\ worker' = [worker EXCEPT
                                  !.pc = "recv",
                                  !.received_bpm = IF r.ret.some THEN r.ret ELSE @,
                                  !.iteration.computed = @ + 1]
                /\ UNCHANGED <<static_bpm_detection_parameters, interval_high, interval_low>>
       ELSE /\ worker' = [worker EXCEPT !.pc = "recv"]
            /\ UNCHANGED <<estimator, call>>
    /\ UNCHANGED <<pass, probe, channel, clock>>

WorkerStep ==
    \/ Recv
    \/ Expiry
    \/ TryIter
    \/ Dispatch
    \/ Evaluate

NextWorker ==
    \/ \E worker_event \in WorkerEvents(channel.sent) : Send(worker_event)
    \/ Disconnect
    \/ Tick
    \/ WorkerStep

SpecWorker == InitWorker /\ [][NextWorker]_vars /\ WF_vars(WorkerStep) /\ WF_vars(Tick)

\* The worker with producers that send notes and configuration changes only,
\* MaxChanges events at most.
MaxChanges == 2

ChangeEvents(sent) ==
    {worker_event \in WorkerEvents(sent) :
        worker_event.kind \in {"TimedMidiNoteOn", "DynamicBPMDetectionConfig",
                               "StaticBPMDetectionConfig"}}

SendChange(worker_event) ==
    /\ channel.sent < MaxChanges
    /\ Send(worker_event)

NextWorkerChanges ==
    \/ \E worker_event \in ChangeEvents(channel.sent) : SendChange(worker_event)
    \/ Disconnect
    \/ Tick
    \/ WorkerStep

SpecWorkerChanges ==
    InitWorker /\ [][NextWorkerChanges]_vars /\ WF_vars(WorkerStep) /\ WF_vars(Tick)

\* ------------------------------------------- OnOff, written and read back
\* parameter crate, lines 116-202. A document is what a self-describing format
\* hands to deserialize_any: a boolean, an integer, a float, a string, or a
\* table of fields in the order of the text. Numbers are hundredths.

\* a table given to visit_map has at most MaxFields fields
MaxFields == 2

On(v) == [tag |-> "On", value |-> v]
Off(v) == [tag |-> "Off", value |-> v]

Ok(onoff) == [ok |-> TRUE, onoff |-> onoff, err |-> "none"]
Err(err) == [ok |-> FALSE, onoff |-> On(0), err |-> err]

Scalar(kind, b, n) == [kind |-> kind, b |-> b, n |-> n, fields |-> <<>>]
Table(fields) == [kind |-> "table", b |-> FALSE, n |-> 0, fields |-> fields]

\* lines 186-201: a struct of two fields, enabled first
serialize_shorthand(onoff) == Scalar("float", FALSE, onoff.value)

serialize(onoff) ==
    Table(<<[key |-> "enabled", value |-> Scalar("boolean", onoff.tag = "On", 0)],
            [key |-> "value", value |-> Scalar("float", FALSE, onoff.value)]>>)

\* lines 151-178, from the field the loop is at; next_value reads a bool from
\* a boolean only, and an f32 from an integer or a float
RECURSIVE visit_map(_, _, _)
visit_map(fields, enabled, value) ==
    IF fields = <<>>
    THEN IF ~value.some
         THEN Err("missing field")
         ELSE IF (IF enabled.some THEN enabled.val ELSE TRUE)
              THEN Ok(On(value.val))
              ELSE Ok(Off(value.val))
    ELSE LET field == Head(fields)
         IN  IF field.key = "enabled"
             THEN IF enabled.some THEN Err("duplicate field")
                  ELSE IF field.value.kind # "boolean" THEN Err("invalid type")
                  ELSE visit_map(Tail(fields), Some(field.value.b), value)
             ELSE IF field.key = "value"
             THEN IF value.some THEN Err("duplicate field")
                  ELSE IF field.value.kind \notin {"integer", "float"} THEN Err("invalid type")
                  ELSE visit_map(Tail(fields), enabled, Some(field.value.n))
             ELSE Err("unknown field")

\* lines 122-183: deserialize_any calls visit_f64 for a float, visit_map for a
\* table, and the Visitor's default, an error, for anything else
deserialize(document) ==
    IF document.kind = "float" THEN Ok(On(document.n))
    ELSE IF document.kind = "table" THEN visit_map(document.fields, None, None)
    ELSE Err("invalid type")

OnOffNumbers == {0, 70, 100}

OnOffValues == {On(v) : v \in OnOffNumbers} \cup {Off(v) : v \in OnOffNumbers}

Scalars ==
    {Scalar("boolean", b, 0) : b \in BOOLEAN}
    \cup {Scalar("float", FALSE, n) : n \in OnOffNumbers}
    \cup {Scalar("integer", FALSE, 100), Scalar("string", FALSE, 0)}

Fields == {[key |-> key, value |-> value] : key \in {"enabled", "value", "other"},
                                            value \in Scalars}

RECURSIVE FieldSeqs(_)
FieldSeqs(len) ==
    IF len = 0 THEN {<<>>}
    ELSE FieldSeqs(len - 1)
         \cup {Append(fields, field) : fields \in FieldSeqs(len - 1), field \in Fields}

Documents == Scalars \cup {Table(fields) : fields \in FieldSeqs(MaxFields)}

InitOnOff ==
    /\ \E cfg \in StaticConfigs : cfg.bpm_range = 40 /\ cfg.sample_rate = 10 /\ New(cfg)
    /\ call = [op |-> "new", note |-> NoNote, beats_lookback |-> 0, ret |-> NoBpm,
               buffered |-> 0, dirty |-> FALSE]
    /\ pass = NoPass
    /\ NoWorker
    /\ \/ \E document \in Documents :
             probe = [fn |-> "document", onoff |-> On(0), document |-> document,
                      out |-> Err("none")]
       \/ \E onoff \in OnOffValues :
             probe = [fn |-> "value", onoff |-> onoff, document |-> Table(<<>>),
                      out |-> Err("none")]

\* lines 126-182 on a document
Deserialize ==
    /\ probe.fn = "document"
    /\ probe' = [probe EXCEPT !.fn = "deserialize", !.out = deserialize(probe.document)]
    /\ UNCHANGED <<estimator, call, pass, surroundings>>

\* lines 189-201 on a value, then lines 126-182 on what was written
SerializeThenDeserialize ==
    /\ probe.fn = "value"
    /\ probe' = [probe EXCEPT !.fn = "round_trip",
                              !.document = serialize(probe.onoff),
                              !.out = deserialize(serialize(probe.onoff))]
    /\ UNCHANGED <<estimator, call, pass, surroundings>>

NextOnOff ==
    \/ Deserialize
    \/ SerializeThenDeserialize

SpecOnOff == InitOnOff /\ [][NextOnOff]_vars

\* --------------------------------------------------- key bindings parsed
\* tui crate, config.rs lines 180-257. A &str is the sequence of its bytes,
\* each an ASCII character or one byte of a longer character.

\* a key is named after at most MaxPrefixes modifier prefixes
MaxPrefixes == 2

UpperCase == <<"A", "B", "C", "D", "E", "F", "G", "H", "I", "J", "K", "L", "M",
               "N", "O", "P", "Q", "R", "S", "T", "U", "V", "W", "X", "Y", "Z">>
LowerCase == <<"a", "b", "c", "d", "e", "f", "g", "h", "i", "j", "k", "l", "m",
               "n", "o", "p", "q", "r", "s", "t", "u", "v", "w", "x", "y", "z">>

\* u8::to_ascii_lowercase / char::to_ascii_uppercase on one byte
recased(c, from, to) ==
    IF \E i \in 1..26 : from[i] = c THEN to[CHOOSE i \in 1..26 : from[i] = c] ELSE c

\* str::to_ascii_lowercase left out: the string is taken as written
as_written(raw) == raw

to_ascii_lowercase(raw) == [i \in 1..Len(raw) |-> recased(raw[i], UpperCase, LowerCase)]

RECURSIVE str(_)
str(raw) == IF raw = <<>> THEN "" ELSE raw[1] \o str(Tail(raw))

\* str::starts_with
starts_with(raw, prefix) ==
    Len(raw) >= Len(prefix) /\ SubSeq(raw, 1, Len(prefix)) = prefix

ModifierPrefixes ==
    [CONTROL |-> <<"c", "t", "r", "l", "-">>,
     ALT |-> <<"a", "l", "t", "-">>,
     SHIFT |-> <<"s", "h", "i", "f", "t", "-">>]

\* lines 186-208: [remaining, modifiers]
RECURSIVE extract_modifiers_from(_, _)
extract_modifiers_from(current, modifiers) ==
    IF starts_with(current, ModifierPrefixes.CONTROL)
    THEN extract_modifiers_from(SubSeq(current, 6, Len(current)), modifiers \cup {"CONTROL"})
    ELSE IF starts_with(current, ModifierPrefixes.ALT)
    THEN extract_modifiers_from(SubSeq(current, 5, Len(current)), modifiers \cup {"ALT"})
    ELSE IF starts_with(current, ModifierPrefixes.SHIFT)
    THEN extract_modifiers_from(SubSeq(current, 7, Len(current)), modifiers \cup {"SHIFT"})
    ELSE [remaining |-> current, modifiers |-> modifiers]

extract_modifiers(raw) == extract_modifiers_from(raw, {})

KeyCode(kind) == [kind |-> kind, c |-> "", n |-> 0]
Char(c) == [kind |-> "Char", c |-> c, n |-> 0]
F(n) == [kind |-> "F", c |-> "", n |-> n]

\* lines 211-240
NamedKeys ==
    ("esc" :> KeyCode("Esc")) @@ ("enter" :> KeyCode("Enter"))
    @@ ("left" :> KeyCode("Left")) @@ ("right" :> KeyCode("Right"))
    @@ ("up" :> KeyCode("Up")) @@ ("down" :> KeyCode("Down"))
    @@ ("home" :> KeyCode("Home")) @@ ("end" :> KeyCode("End"))
    @@ ("pageup" :> KeyCode("PageUp")) @@ ("pagedown" :> KeyCode("PageDown"))
    @@ ("backtab" :> KeyCode("BackTab")) @@ ("backspace" :> KeyCode("Backspace"))
    @@ ("delete" :> KeyCode("Delete")) @@ ("insert" :> KeyCode("Insert"))
    @@ ("f1" :> F(1)) @@ ("f2" :> F(2)) @@ ("f3" :> F(3)) @@ ("f4" :> F(4))
    @@ ("f5" :> F(5)) @@ ("f6" :> F(6)) @@ ("f7" :> F(7)) @@ ("f8" :> F(8))
    @@ ("f9" :> F(9)) @@ ("f10" :> F(10)) @@ ("f11" :> F(11)) @@ ("f12" :> F(12))
    @@ ("space" :> Char(" ")) @@ ("hyphen" :> Char("-")) @@ ("minus" :> Char("-"))
    @@ ("tab" :> KeyCode("Tab"))

KeyEvent(code, modifiers) == [ok |-> TRUE, code |-> code, modifiers |-> modifiers]
UnableToParse == [ok |-> FALSE, code |-> KeyCode("none"), modifiers |-> {}]

\* lines 210-257
parse_key_code_with_modifiers(raw, modifiers) ==
    IF str(raw) \in DOMAIN NamedKeys
    THEN KeyEvent(NamedKeys[str(raw)],
                  IF str(raw) = "backtab" THEN modifiers \cup {"SHIFT"} ELSE modifiers)
    ELSE IF Len(raw) = 1
    THEN KeyEvent(Char(IF "SHIFT" \in modifiers
                       THEN recased(raw[1], LowerCase, UpperCase)
                       ELSE raw[1]),
                  modifiers)
    ELSE UnableToParse

\* lines 180-184
parse_key_event(raw) ==
    LET raw_lower == to_ascii_lowercase(raw)
        extracted == extract_modifiers(raw_lower)
    IN  parse_key_code_with_modifiers(extracted.remaining, extracted.modifiers)

\* the names tried, in lower case: named keys, single characters, a character
\* of two bytes, and names that are neither
KeyNames ==
    {<<"e", "s", "c">>, <<"e", "n", "t", "e", "r">>, <<"t", "a", "b">>,
     <<"b", "a", "c", "k", "t", "a", "b">>, <<"f", "1">>, <<"f", "1", "2">>,
     <<"s", "p", "a", "c", "e">>, <<"m", "i", "n", "u", "s">>,
     <<"a">>, <<"q">>, <<"1">>, <<"-">>, <<"<c3>", "<a9>">>,
     <<"i", "n", "v", "a", "l", "i", "d", "-", "k", "e", "y">>, <<"f", "1", "3">>, <<>>}

RECURSIVE PrefixSeqs(_)
PrefixSeqs(len) ==
    IF len = 0 THEN {<<>>}
    ELSE PrefixSeqs(len - 1)
         \cup {Append(prefixes, modifier) :
                  prefixes \in PrefixSeqs(len - 1), modifier \in DOMAIN ModifierPrefixes}

\* the text naming `name` after `prefixes`
RECURSIVE written(_, _)
written(prefixes, name) ==
    IF prefixes = <<>> THEN name
    ELSE ModifierPrefixes[Head(prefixes)] \o written(Tail(prefixes), name)

\* the text in upper case, or with every other byte in upper case
cased(raw, casing) ==
    [i \in 1..Len(raw) |->
        IF casing = "upper" \/ (casing = "mixed" /\ i % 2 = 0)
        THEN recased(raw[i], LowerCase, UpperCase)
        ELSE raw[i]]

InitKeys ==
    /\ \E cfg \in StaticConfigs : cfg.bpm_range = 40 /\ cfg.sample_rate = 10 /\ New(cfg)
    /\ call = [op |-> "new", note |-> NoNote, beats_lookback |-> 0, ret |-> NoBpm,
               buffered |-> 0, dirty |-> FALSE]
    /\ pass = NoPass
    /\ NoWorker
    /\ \E prefixes \in PrefixSeqs(MaxPrefixes), name \in KeyNames,
          casing \in {"lower", "upper", "mixed"} :
          probe = [fn |-> "input", prefixes |-> prefixes, name |-> name,
                   raw |-> cased(written(prefixes, name), casing),
                   out |-> UnableToParse, out_lower |-> UnableToParse]

\* lines 180-184, on the text and on the same text in lower case
ParseKeyEvent ==
    /\ probe.fn = "input"
    /\ probe' = [probe EXCEPT !.fn = "parse_key_event",
                              !.out = parse_key_event(probe.raw),
                              !.out_lower = parse_key_event(written(probe.prefixes,
                                                                    probe.name))]
    /\ UNCHANGED <<estimator, call, pass, surroundings>>

NextKeys == ParseKeyEvent

SpecKeys == InitKeys /\ [][NextKeys]_vars

\* --------------------------------------- the kernel lookups of one pair
\* bpm_detection.rs lines 179-206, one turn of the while loop at a time, for
\* kernels from one end of the declared ranges to the other.

LookupConfigs ==
    {[bpm_center |-> 90 * BpmScale, bpm_range |-> 40, sample_rate |-> rate,
      normal_distribution |->
         [std_dev |-> 24, factor |-> 40, cutoff |-> k[1], resolution |-> k[2]]] :
        rate \in {10, 100},
        k \in {<<1, 1>>, <<1, 1000>>, <<10, 3>>, <<100, 25>>, <<100, 30>>,
               <<2000, 1>>, <<2000, 1000>>}}

InitLookups ==
    /\ \E cfg \in LookupConfigs :
          /\ New(cfg)
          /\ \E interval \in {bpm_to_beat_duration(highest_bpm(cfg)), Millis(600),
                              bpm_to_beat_duration(lowest_bpm(cfg))} :
                probe = [fn |-> "interval", interval |-> interval, k |-> 0,
                         timestamp |-> 0, index |-> 0]
    /\ call = [op |-> "new", note |-> NoNote, beats_lookback |-> 0, ret |-> NoBpm,
               buffered |-> 0, dirty |-> FALSE]
    /\ pass = NoPass
    /\ NoWorker

\* lines 185-205: the next offset; the kernel is read at it when the offset
\* interval has a bin (the kernel weight being on)
SpreadLookup ==
    LET cfg == static_bpm_detection_parameters
        offs == spread_offsets(cfg)
        timestamp == offs[probe.k + 1]
    IN  /\ probe.k < Len(offs)
        /\ probe' =
              IF duration_to_index(cfg, timestamp + probe.interval,
                                   Len(histogram_data_points)).some
              THEN [probe EXCEPT !.fn = "lookup", !.k = @ + 1, !.timestamp = timestamp,
                       !.index = index_for_duration(cfg.normal_distribution, timestamp)]
              ELSE [probe EXCEPT !.fn = "no bin", !.k = @ + 1, !.timestamp = timestamp]
        /\ UNCHANGED <<estimator, call, pass, surroundings>>

NextLookups == SpreadLookup

SpecLookups == InitLookups /\ [][NextLookups]_vars

\* ------------------------------------- a pass over a histogram left behind
\* compute_bpm on an estimator whose histogram holds what an earlier pass
\* left; `probe.fresh` is the same call on an estimator that never ran a pass.

\* the window holds at most MaxLeftNotes notes
MaxLeftNotes == 2

\* scores an earlier pass can leave in a bin
LeftScores == {0, 7, 100000}

RECURSIVE NoteSeqs(_)
NoteSeqs(len) ==
    IF len = 0 THEN {<<>>}
    ELSE NoteSeqs(len - 1)
         \cup {Append(received, [timestamp |-> t, note |-> 60, velocity |-> 127]) :
                  received \in {r \in NoteSeqs(len - 1) : Len(r) = len - 1},
                  t \in Timestamps}

\* the estimator new() makes, given the notes `received`
newly_made(cfg, received) ==
    [static_bpm_detection_parameters |-> cfg,
     interval_high |-> bpm_to_beat_duration(lowest_bpm(cfg)),
     interval_low |-> bpm_to_beat_duration(highest_bpm(cfg)),
     notes |-> received,
     histogram_data_points |-> zeroed(buffer_size(cfg))]

InitLeftBehind ==
    /\ \E cfg \in {c \in StaticConfigs : c.sample_rate = 10} :
       \E received \in {r \in NoteSeqs(MaxLeftNotes) :
                           \A i \in 1..(Len(r) - 1) : r[i].timestamp <= r[i + 1].timestamp} :
       \E left \in [1..buffer_size(cfg) -> LeftScores] :
       \E dyn \in DynamicConfigs :
          /\ static_bpm_detection_parameters = cfg
          /\ interval_low = bpm_to_beat_duration(highest_bpm(cfg))
          /\ interval_high = bpm_to_beat_duration(lowest_bpm(cfg))
          /\ histogram_data_points = left
          /\ notes = received
          /\ probe = [fn |-> "left behind", dyn |-> dyn, left |-> left,
                      buffered |-> Len(received),
                      fresh |-> compute_bpm(newly_made(cfg, received), dyn)]
    /\ call = Call("new", NoNote, 0, NoBpm)
    /\ pass = NoPass
    /\ NoWorker

\* lines 51-88 on the estimator that holds the left-over scores
ComputeOverLeftBehind ==
    LET r == compute_bpm(Self, probe.dyn)
    IN  /\ probe.fn = "left behind"
        /\ notes' = r.notes
        /\ histogram_data_points' = r.histogram_data_points
        /\ call' = Call("compute_bpm", NoNote, probe.dyn.beats_lookback, r.ret)
        /\ probe' = [probe EXCEPT !.fn = "compute_bpm"]
        /\ UNCHANGED <<static_bpm_detection_parameters, interval_high, interval_low,
                       pass, surroundings>>

NextLeftBehind == ComputeOverLeftBehind

SpecLeftBehind == InitLeftBehind /\ [][NextLeftBehind]_vars

\* ------------------------------------------------------ ArcAtomicOptional
\* sync crate, serializable_atomic.rs lines 46-74. The holder is one atomic
\* cell of T; T::zero() stands for None.

\* val.unwrap_or(T::zero())
unwrap_or_zero(val) == IF val.some THEN val.val ELSE 0

\* lines 56-59
load(cell) == IF cell = 0 THEN None ELSE Some(cell)

\* lines 61-63
store(cell, val) == unwrap_or_zero(val)

\* lines 65-67: one fetch_update, which writes only over zero
store_if_none(cell, val) == IF cell = 0 THEN unwrap_or_zero(val) ELSE cell

\* lines 70-72: one fetch_update, which writes zero over a non-zero value and
\* returns the value it replaced
take(cell) ==
    [cell |-> 0, ret |-> IF cell # 0 THEN Some(cell) ELSE None]

\* ------------------------------------------------- the plugin's debounce
\* midi-bpm-detector-plugin: process() on the audio thread (lib.rs lines
\* 187-221), the parameter callbacks on the host's thread
\* (plugin_parameters.rs lines 130-152) and the background tasks
\* (task_executor.rs lines 131-205). `probe` holds the plugin: the sample
\* counter, the two changed_at holders, the host-side parameter values
\* (counted by change), the values the last task of each kind read, the
\* queue of background tasks and where each thread stands.

\* lib.rs line 200 and line 212: Duration::milliseconds(50)
PluginDebounceMs == 50

\* the host's sample rate and the length of a buffer, in samples
PluginSampleRate == 44100
BufferSamples == 1024

\* the counter is followed up to MaxSample, the host changes parameters
\* MaxParamChanges times
MaxSample == 4096
MaxParamChanges == 2

Kinds == {"static", "dynamic"}

\* lib.rs lines 53-66 and 105-115
InitPlugin ==
    /\ \E cfg \in StaticConfigs : cfg.bpm_range = 40 /\ cfg.sample_rate = 10 /\ New(cfg)
    /\ call = Call("new", NoNote, 0, NoBpm)
    /\ pass = NoPass
    /\ NoWorker
    /\ probe = [fn |-> "plugin",
                current_sample |-> 0,
                changed_at |-> [kind \in Kinds |-> store(0, Some(1))],
                params |-> [kind \in Kinds |-> 0],
                config |-> [kind \in Kinds |-> 0],
                tasks |-> <<>>,
                process |-> [pc |-> "load", kind |-> "static", changed_at |-> None],
                host |-> [pc |-> "idle", kind |-> "static", current_sample |-> 0]]

\* the audio thread goes on to the dynamic holder, then to line 217
next_holder(process) ==
    IF process.kind = "static"
    THEN [pc |-> "load", kind |-> "dynamic", changed_at |-> None]
    ELSE [pc |-> "count", kind |-> "static", changed_at |-> None]

\* lines 193-194 and 205-206: changed_at.load
ProcessLoad ==
    /\ probe.fn = "plugin"
    /\ probe.process.pc = "load"
    /\ LET changed_at == load(probe.changed_at[probe.process.kind])
       IN  probe' = [probe EXCEPT !.process =
                        IF changed_at.some
                        THEN [@ EXCEPT !.pc = "elapsed", !.changed_at = changed_at]
                        ELSE next_holder(@)]
    /\ UNCHANGED <<estimator, call, pass, surroundings>>

\* lines 196-200 and 208-212
ProcessElapsed ==
    /\ probe.fn = "plugin"
    /\ probe.process.pc = "elapsed"
    /\ LET since == probe.current_sample - probe.process.changed_at.val
           duration_since_change ==
               sample_to_duration(PluginSampleRate, IF since < 0 THEN 0 ELSE since)
       IN  probe' = [probe EXCEPT !.process =
                        IF duration_since_change > Millis(PluginDebounceMs)
                        THEN [@ EXCEPT !.pc = "execute"]
                        ELSE next_holder(@)]
    /\ UNCHANGED <<estimator, call, pass, surroundings>>

\* lines 201 and 213: context.execute_background
ProcessExecute ==
    /\ probe.fn = "plugin"
    /\ probe.process.pc = "execute"
    /\ probe' = [probe EXCEPT !.tasks = Append(@, probe.process.kind),
                              !.process.pc = "store"]
    /\ UNCHANGED <<estimator, call, pass, surroundings>>

\* lines 202 and 214: changed_at.store(None)
ProcessStore ==
    /\ probe.fn = "plugin"
    /\ probe.process.pc = "store"
    /\ probe' = [probe EXCEPT !.changed_at[probe.process.kind] = store(@, None),
                              !.process = next_holder(@)]
    /\ UNCHANGED <<estimator, call, pass, surroundings>>

\* a change is waiting for its 50 ms
awaited(plugin) ==
    \E kind \in Kinds :
        /\ plugin.changed_at[kind] # 0
        /\ sample_to_duration(PluginSampleRate,
                              plugin.current_sample - plugin.changed_at[kind])
               <= Millis(PluginDebounceMs)

\* lines 217-219: current_sample.fetch_add(buffer.samples()), and process()
\* returns; the next call starts at line 193. Past MaxSample the counter is
\* followed only while a change is waiting.
ProcessCount ==
    /\ probe.fn = "plugin"
    /\ probe.process.pc = "count"
    /\ probe' = [probe EXCEPT
                    !.current_sample =
                        IF @ < MaxSample \/ awaited(probe) THEN @ + BufferSamples ELSE @,
                    !.process = [pc |-> "load", kind |-> "static", changed_at |-> None]]
    /\ UNCHANGED <<estimator, call, pass, surroundings>>

\* the host sets a parameter of one kind; the parameter's callback follows
HostChange(kind) ==
    /\ probe.fn = "plugin"
    /\ probe.host.pc = "idle"
    /\ probe.params["static"] + probe.params["dynamic"] < MaxParamChanges
    /\ probe' = [probe EXCEPT !.params[kind] = @ + 1,
                              !.host = [@ EXCEPT !.pc = "callback", !.kind = kind]]
    /\ UNCHANGED <<estimator, call, pass, surroundings>>

\* plugin_parameters.rs lines 137 and 147: current_sample.load
CallbackLoad ==
    /\ probe.fn = "plugin"
    /\ probe.host.pc = "callback"
    /\ probe' = [probe EXCEPT !.host.pc = "store_if_none",
                              !.host.current_sample = probe.current_sample]
    /\ UNCHANGED <<estimator, call, pass, surroundings>>

\* plugin_parameters.rs lines 137 and 147: changed_at.store_if_none
CallbackStoreIfNone ==
    /\ probe.fn = "plugin"
    /\ probe.host.pc = "store_if_none"
    /\ probe' = [probe EXCEPT
                    !.changed_at[probe.host.kind] =
                        store_if_none(@, Some(probe.host.current_sample)),
                    !.host.pc = "idle"]
    /\ UNCHANGED <<estimator, call, pass, surroundings>>

\* task_executor.rs lines 131-158 and 168-205: the task of origin Daw reads
\* the parameters of its kind
RunTask ==
    /\ probe.fn = "plugin"
    /\ probe.tasks # <<>>
    /\ probe' = [probe EXCEPT !.config[Head(probe.tasks)] = probe.params[Head(probe.tasks)],
                              !.tasks = Tail(@)]
    /\ UNCHANGED <<estimator, call, pass, surroundings>>

Process ==
    \/ ProcessLoad
    \/ ProcessElapsed
    \/ ProcessExecute
    \/ ProcessStore
    \/ ProcessCount

Callback ==
    \/ CallbackLoad
    \/ CallbackStoreIfNone

NextPlugin ==
    \/ Process
    \/ \E kind \in Kinds : HostChange(kind)
    \/ Callback
    \/ RunTask

\* process() keeps being called, a callback returns, a queued task runs
SpecPlugin ==
    InitPlugin /\ [][NextPlugin]_vars
        /\ WF_vars(Process) /\ WF_vars(Callback) /\ WF_vars(RunTask)

\* --------------------------------------- threads sharing one holder
\* serializable_atomic.rs lines 46-74: threads call store_if_none and take on
\* one ArcAtomicOptional; each call is one atomic fetch_update. `held` is
\* what an optional slot given the same calls holds: the first value stored
\* into it since it was last empty. Each thread takes once and keeps what
\* take returned and what the slot held then.

\* MaxStores calls of store_if_none, TakingThreads threads calling take
MaxStores == 3
TakingThreads == 3

\* the values stored: u16 ports, usize sample counts
StoredValues == {None, Some(0), Some(1), Some(2)}

\* lines 51-54: none()
InitHolder ==
    /\ \E cfg \in StaticConfigs : cfg.bpm_range = 40 /\ cfg.sample_rate = 10 /\ New(cfg)
    /\ call = Call("new", NoNote, 0, NoBpm)
    /\ pass = NoPass
    /\ NoWorker
    /\ probe = [fn |-> "holder", cell |-> unwrap_or_zero(None), held |-> None,
                stores |-> 0,
                taken |-> [thread \in 1..TakingThreads |->
                              [done |-> FALSE, ret |-> None, held |-> None]]]

\* lines 65-67, called by any thread
StoreIfNone(val) ==
    /\ probe.fn = "holder"
    /\ probe.stores < MaxStores
    /\ probe' = [probe EXCEPT !.cell = store_if_none(@, val),
                              !.held = IF @.some THEN @ ELSE val,
                              !.stores = @ + 1]
    /\ UNCHANGED <<estimator, call, pass, surroundings>>

\* lines 70-72, called by `thread`
Take(thread) ==
    /\ probe.fn = "holder"
    /\ ~probe.taken[thread].done
    /\ probe' = [probe EXCEPT !.cell = take(@).cell,
                              !.held = None,
                              !.taken[thread] = [done |-> TRUE, ret |-> take(probe.cell).ret,
                                                 held |-> probe.held]]
    /\ UNCHANGED <<estimator, call, pass, surroundings>>

NextHolder ==
    \/ \E val \in StoredValues : StoreIfNone(val)
    \/ \E thread \in 1..TakingThreads : Take(thread)

SpecHolder == InitHolder /\ [][NextHolder]_vars

\* ------------------------------------------------- the Screens service
\* tui crate, services/screens/mod.rs lines 19-59 and mode.rs lines 4-9.
\* `probe` holds the service's current_mode, the action it returned that the
\* application has still to dispatch, the last action handled with the mode
\* before it and what it returned, and how far a NextScreen followed by a
\* PrevScreen has come (`round`).

\* the application handles MaxHandled actions
MaxHandled == 8

\* mode.rs lines 5-8, in the order Mode::iter() yields them
Modes == <<"Home", "DeviceView">>

\* Mode::COUNT
COUNT == Len(Modes)

Action(kind, mode) == [kind |-> kind, mode |-> mode]
Switch(mode) == Action("Switch", mode)

\* Mode::iter().position(|m| m == mode).unwrap()
position(mode) == CHOOSE n \in 0..(COUNT - 1) : Modes[n + 1] = mode

\* Mode::iter().nth(n).unwrap()
nth(n) == Modes[n + 1]

\* lines 20-58: the service after the action, and the action returned
handle_action(current_mode, action) ==
    IF action.kind = "Switch"
    THEN [current_mode |-> position(action.mode), ret |-> None]
    ELSE IF action.kind = "NextScreen"
    THEN [current_mode |-> current_mode,
          ret |-> Some(Switch(nth((current_mode + 1) % COUNT)))]
    ELSE IF action.kind = "PrevScreen"
    \* lines 49-53 compute the previous position and drop it
    THEN [current_mode |-> current_mode, ret |-> Some(Switch(nth(current_mode)))]
    ELSE [current_mode |-> current_mode, ret |-> None]

\* the actions the application hands to the service on its own
Actions ==
    {Action(kind, "Home") : kind \in {"NextScreen", "PrevScreen", "Tick", "Up", "Quit"}}
    \cup {Switch(Modes[n]) : n \in 1..COUNT}

InitScreens ==
    /\ \E cfg \in StaticConfigs : cfg.bpm_range = 40 /\ cfg.sample_rate = 10 /\ New(cfg)
    /\ call = Call("new", NoNote, 0, NoBpm)
    /\ pass = NoPass
    /\ NoWorker
    /\ probe = [fn |-> "screens", current_mode |-> 0, returned |-> None,
                last |-> Action("none", "Home"), before |-> 0, ret |-> None,
                round |-> [stage |-> 0, origin |-> 0], handled |-> 0]

\* how far NextScreen, its Switch, PrevScreen, its Switch has come
round_after(round, action, current_mode, dispatched) ==
    IF action.kind = "NextScreen" /\ ~dispatched
    THEN [stage |-> 1, origin |-> current_mode]
    ELSE IF action.kind = "Switch" /\ dispatched /\ round.stage \in {1, 3}
    THEN [round EXCEPT !.stage = @ + 1]
    ELSE IF action.kind = "PrevScreen" /\ ~dispatched /\ round.stage = 2
    THEN [round EXCEPT !.stage = 3]
    ELSE [stage |-> 0, origin |-> 0]

\* lines 20-58 on an action of the application
HandleAction(action) ==
    /\ probe.fn = "screens"
    /\ ~probe.returned.some
    /\ probe.handled < MaxHandled
    /\ LET r == handle_action(probe.current_mode, action)
       IN  probe' = [probe EXCEPT !.current_mode = r.current_mode,
                                  !.returned = r.ret,
                                  !.last = action,
                                  !.before = probe.current_mode,
                                  !.ret = r.ret,
                                  !.round = round_after(@, action, probe.current_mode, FALSE),
                                  !.handled = @ + 1]
    /\ UNCHANGED <<estimator, call, pass, surroundings>>

\* lines 20-58 on the action the service returned, dispatched in turn
HandleReturned ==
    /\ probe.fn = "screens"
    /\ probe.returned.some
    /\ LET r == handle_action(probe.current_mode, probe.returned.val)
       IN  probe' = [probe EXCEPT !.current_mode = r.current_mode,
                                  !.returned = r.ret,
                                  !.round = round_after(@, probe.returned.val,
                                                        probe.current_mode, TRUE)]
    /\ UNCHANGED <<estimator, call, pass, surroundings>>

NextScreens ==
    \/ \E action \in Actions : HandleAction(action)
    \/ HandleReturned

SpecScreens == InitScreens /\ [][NextScreens]_vars

\* ------------------------------------------- the SelectDevice component
\* tui crate, components/select_device.rs lines 34-84 and 120-155. `probe`
\* holds the component's devices, active, widget_state's selected index and
\* selection, the last action handled with what it returned, and whether the
\* component panicked. A port is a number, MidiInputPort::None the smallest.

\* midi_in.rs lines 74-94: ports are sorted and MidiInputPort::None is always
\* among them; at most MaxPorts devices are plugged in
MaxPorts == 3
NoPort == 0

RECURSIVE sorted_ports(_)
sorted_ports(port) ==
    IF port > MaxPorts THEN {<<>>}
    ELSE {<<port>> \o rest : rest \in sorted_ports(port + 1)} \cup sorted_ports(port + 1)

\* the lists get_ports returns
DeviceLists == {<<NoPort>> \o ports : ports \in sorted_ports(NoPort + 1)}

\* lines 48-79: the index the loop over merge_join_by leaves selected, if it
\* selects one; `new_index` and `old_index` count from 1 here
RECURSIVE merge_join_by(_, _, _, _, _, _)
merge_join_by(devices, old, new_index, old_index, selection, updated_selection) ==
    IF new_index > Len(devices) /\ old_index > Len(old) THEN updated_selection
    ELSE IF old_index > Len(old)
            \/ (new_index <= Len(devices) /\ devices[new_index] < old[old_index])
    \* EitherOrBoth::Left
    THEN merge_join_by(devices, old, new_index + 1, old_index, selection,
             IF new_index - 1 > 0 /\ devices[new_index] = selection
             THEN Some(new_index - 1) ELSE updated_selection)
    ELSE IF new_index > Len(devices) \/ old[old_index] < devices[new_index]
    \* EitherOrBoth::Right
    THEN merge_join_by(devices, old, new_index, old_index + 1, selection,
             IF old[old_index] = selection THEN Some(0) ELSE updated_selection)
    \* EitherOrBoth::Both
    ELSE merge_join_by(devices, old, new_index + 1, old_index + 1, selection,
             IF devices[new_index] = selection /\ new_index # old_index
             THEN Some(new_index - 1) ELSE updated_selection)

\* lines 47-84
refresh_devices(self, devices) ==
    LET updated_selection ==
            merge_join_by(devices, self.devices, 1, 1, self.selection, None)
    IN  [self EXCEPT !.devices = devices,
                     !.selected = IF updated_selection.some THEN updated_selection ELSE @]

\* lines 36-44: box_new
InitSelectDevice ==
    /\ \E cfg \in StaticConfigs : cfg.bpm_range = 40 /\ cfg.sample_rate = 10 /\ New(cfg)
    /\ call = Call("new", NoNote, 0, NoBpm)
    /\ pass = NoPass
    /\ NoWorker
    /\ probe = [fn |-> "select_device", devices |-> <<>>, active |-> FALSE,
                selected |-> Some(0), selection |-> NoPort,
                last |-> "none", before |-> Some(0), ret |-> None, panicked |-> FALSE]

\* lines 122-125: Action::Switch
HandleSwitch(mode) ==
    /\ probe.fn = "select_device"
    /\ ~probe.panicked
    /\ probe' = [probe EXCEPT !.active = (mode = "DeviceView"), !.last = "Switch",
                              !.before = probe.selected, !.ret = None]
    /\ UNCHANGED <<estimator, call, pass, surroundings>>

\* lines 143-150: devices.get(selection) and what follows
selected_device(self, selection, last) ==
    IF selection < Len(self.devices)
    THEN [self EXCEPT !.selected = Some(selection),
                      !.selection = self.devices[selection + 1],
                      !.last = last, !.before = self.selected,
                      !.ret = Some(self.devices[selection + 1])]
    ELSE [self EXCEPT !.last = last, !.before = self.selected, !.ret = None]

\* lines 127-133 and 143-150: Action::Up. `devices.len() - 1` on an empty
\* list overflows: a panic with overflow checks, usize::MAX without.
HandleUp ==
    /\ probe.fn = "select_device"
    /\ ~probe.panicked
    /\ probe.active
    /\ IF probe.selected.val = 0 /\ Len(probe.devices) = 0
       THEN \E overflow_checks \in BOOLEAN :
               probe' = IF overflow_checks
                        THEN [probe EXCEPT !.panicked = TRUE, !.last = "Up",
                                           !.before = probe.selected, !.ret = None]
                        ELSE [probe EXCEPT !.last = "Up", !.before = probe.selected,
                                           !.ret = None]
       ELSE probe' = selected_device(probe,
                                     IF probe.selected.val = 0
                                     THEN Len(probe.devices) - 1
                                     ELSE probe.selected.val - 1,
                                     "Up")
    /\ UNCHANGED <<estimator, call, pass, surroundings>>

\* lines 134-141 and 143-150: Action::Down; checked_rem is None for an empty
\* list
HandleDown ==
    /\ probe.fn = "select_device"
    /\ ~probe.panicked
    /\ probe.active
    /\ probe' = IF Len(probe.devices) = 0
                THEN [probe EXCEPT !.last = "Down", !.before = probe.selected,
                                   !.ret = None]
                ELSE selected_device(probe,
                                     (probe.selected.val + 1) % Len(probe.devices),
                                     "Down")
    /\ UNCHANGED <<estimator, call, pass, surroundings>>

\* lines 158-161: Event::DeviceList
HandleDeviceList(devices) ==
    /\ probe.fn = "select_device"
    /\ ~probe.panicked
    /\ probe' = [refresh_devices(probe, devices) EXCEPT
                    !.last = "DeviceList", !.before = probe.selected, !.ret = None]
    /\ UNCHANGED <<estimator, call, pass, surroundings>>

NextSelectDevice ==
    \/ \E n \in 1..COUNT : HandleSwitch(Modes[n])
    \/ HandleUp
    \/ HandleDown
    \/ \E devices \in DeviceLists : HandleDeviceList(devices)

SpecSelectDevice == InitSelectDevice /\ [][NextSelectDevice]_vars

\* ---------------------------------------------------------------- claims

\* C1: compute_bpm returns None whenever the NoteWindow holds 0 or 1 notes,
\* whatever the static parameters and the weights.
C1_NoneBelowTwoNotes ==
    call.op = "compute_bpm" /\ call.buffered <= 1 => ~call.ret.some

\* C2: after a compute_bpm call that returned a bpm B, every note still in
\* the NoteWindow is at most period(B) * beats_lookback older than the newest.
C2_NoNoteBeyondHorizon ==
    call.op = "compute_bpm" /\ call.ret.some =>
        \A k \in 1..Len(notes) :
            notes[Len(notes)].timestamp - notes[k].timestamp
                <= bpm_to_beat_duration(call.ret.bpm) * call.beats_lookback

\* C2 witness: a pass that returned a bpm pruned the window and left two notes
C2_Witness ==
    /\ call.op = "compute_bpm" /\ call.ret.some
    /\ Len(notes) < call.buffered
    /\ Len(notes) >= 2

\* C3: update_static_parameters leaves the NoteWindow as it was and leaves the
\* histogram with buffer_size(new parameters) bins, all of them zero.
C3_UpdateKeepsNotesClearsHistogram ==
    [][call'.op = "update_static_parameters" =>
          /\ notes' = notes
          /\ Len(histogram_data_points') = buffer_size(static_bpm_detection_parameters')
          /\ \A bin \in 1..Len(histogram_data_points') : histogram_data_points'[bin] = 0
      ]_vars

\* C3 witness: an update made with notes buffered and scores in the histogram
C3_Witness ==
    /\ call.op = "update_static_parameters"
    /\ call.dirty
    /\ call.buffered >= 2 /\ Len(notes) = call.buffered
    /\ Len(histogram_data_points) > 0

\* C4: a compute_bpm call made with fewer than 2 buffered notes changes neither
\* the NoteWindow nor any histogram bin.
C4_UnchangedBelowTwoNotes ==
    [][call'.op = "compute_bpm" /\ Len(notes) < 2 =>
          /\ notes' = notes
          /\ histogram_data_points' = histogram_data_points
      ]_vars

\* C5: the NoteWindow never holds more than NOTE_CAPACITY (10000) notes; a
\* receive_note on a window below capacity appends the note and removes nothing,
\* on a full window it removes exactly the front note and appends the new one,
\* the other notes keeping their order.
C5_WindowDropsOldestAtCapacity ==
    /\ [](Len(notes) <= NOTE_CAPACITY)
    /\ [][call'.op = "receive_midi_message" =>
            IF Len(notes) < NOTE_CAPACITY
            THEN /\ Len(notes') = Len(notes) + 1
                 /\ \A k \in 1..Len(notes) : notes'[k] = notes[k]
                 /\ notes'[Len(notes')] = call'.note
            ELSE /\ Len(notes') = NOTE_CAPACITY
                 /\ \A k \in 1..(NOTE_CAPACITY - 1) : notes'[k] = notes[k + 1]
                 /\ notes'[NOTE_CAPACITY] = call'.note
        ]_vars

\* C5 witness: a note received by a full window
C5_Witness ==
    /\ call.op = "receive_midi_message"
    /\ call.buffered = NOTE_CAPACITY
    /\ Len(notes) = NOTE_CAPACITY
    /\ notes[NOTE_CAPACITY] = call.note /\ call.note # Filler

\* C6: every compute_bpm call runs to completion: once a pass has started, the
\* halving loop, the doubling loop, the spreading loop and the pruning loop all
\* end and the call returns.
C6_PassRunsToCompletion == (pass.pc # "idle") ~> (pass.pc = "idle")

\* a returned pass whose four loops have all iterated, the halving loop more
\* than once
C6_Witness ==
    /\ pass.pc = "idle"
    /\ call.op = "compute_bpm"
    /\ pass.halved >= 2
    /\ pass.doubled >= 2
    /\ pass.written >= 2
    /\ pass.popped >= 1

\* C11: the kernel is symmetric around offset 0: for every offset d with
\* |d| <= cutoff the lookup at +d returns the same value as the lookup at -d.
C11_KernelSymmetric ==
    probe.fn = "index" =>
        /\ probe.plus.some
        /\ probe.minus.some
        /\ probe.plus.val = probe.minus.val

\* C12: an interval longer than period(lowest_bpm) is halved until it fits the
\* window or 8 halvings are done; no interval is halved more than 8 times.
C12_HalvedAtMostEightTimes ==
    probe.fn = "fold" /\ probe.raw > probe.interval_high =>
        /\ probe.out.halved <= 8
        /\ probe.out.interval < probe.interval_high \/ probe.out.halved = 8

\* C12 as amended: an interval longer than period(lowest_bpm) is halved, with
\* no budget, until it is shorter than period(lowest_bpm): the number of
\* halvings is the least k >= 1 with raw / 2^k < period(lowest_bpm).
C12_HalvedUntilBelowInterval ==
    probe.fn = "fold" /\ probe.raw > probe.interval_high =>
        /\ probe.out.halved >= 1
        /\ probe.out.interval = probe.raw \div 2^probe.out.halved
        /\ probe.out.interval < probe.interval_high
        /\ \A k \in 1..(probe.out.halved - 1) :
              probe.raw \div 2^k >= probe.interval_high

\* C12 witness: an interval halved more than 8 times
C12_Witness ==
    /\ probe.fn = "fold"
    /\ probe.raw > probe.interval_high
    /\ probe.out.halved > 8

C14_DisabledFeaturesDoNotShow ==
    /\ probe.fn = "compute_bpm"
    /\ Len(probe.one.notes) = Len(probe.other.notes)
    /\ \A i \in 1..Len(probe.one.notes) :
          /\ probe.one.notes[i].timestamp = probe.other.notes[i].timestamp
          /\ feeds(probe.enabled) = "note" =>
                probe.one.notes[i].note = probe.other.notes[i].note
          /\ feeds(probe.enabled) = "velocity" =>
                probe.one.notes[i].velocity = probe.other.notes[i].velocity
    => /\ probe.out_one.histogram_data_points = probe.out_other.histogram_data_points
       /\ probe.out_one.ret = probe.out_other.ret

\* C14 witness: two buffers that differ in pitch and in velocity, scored by a
\* pass that left a non-zero histogram and returned a bpm
C14_Witness ==
    /\ probe.fn = "compute_bpm"
    /\ \E i \in 1..Len(probe.one.notes) :
          /\ probe.one.notes[i].note # probe.other.notes[i].note
          /\ probe.one.notes[i].velocity # probe.other.notes[i].velocity
    /\ probe.out_one.ret.some
    /\ \E bin \in 1..Len(probe.out_one.histogram_data_points) :
          probe.out_one.histogram_data_points[bin] > ScoreScale

C16_BatchDrainedBeforeCompute ==
    worker.pc # "none" =>
        /\ worker.iteration.computed <= 1
        /\ worker.iteration.computed = 1 =>
              /\ worker.iteration.seen_empty
              /\ worker.buffered_events = <<>>
              /\ worker.iteration.handed = worker.iteration.note_ons

\* a batch of two note-ons was drained and compute_bpm ran once on both
C16_Witness ==
    /\ worker.pc = "recv"
    /\ worker.iteration.computed = 1
    /\ worker.iteration.drained >= 2
    /\ worker.iteration.handed = 2
    /\ call.op = "compute_bpm"
    /\ call.buffered = 2
    /\ call.ret.some

\* C17 as stated: a static configuration is applied only once DebounceMs have
\* elapsed since it was received, it being the last static change received.
C17_AppliedAfterQuietWindow ==
    worker.pc # "none" =>
        (worker.applied.some =>
            worker.applied.at - worker.applied.received_at >= DebounceMs)

\* C17 amended: a static configuration is applied only once more than
\* DebounceMs have elapsed since the evaluation was scheduled, which was when
\* the first configuration change, static or dynamic, was received and not
\* after the applied change was received; later changes do not restart it.
C17_AppliedAfterWindowFromFirstChange ==
    worker.pc # "none" =>
        (worker.applied.some =>
            /\ worker.applied.at - worker.applied.armed_at > DebounceMs
            /\ worker.applied.armed_at <= worker.applied.received_at)

\* a static configuration received inside a running window was applied when
\* the window ended, less than DebounceMs after it was received
C17_Witness ==
    /\ worker.pc # "none"
    /\ worker.applied.some
    /\ worker.applied.received_at > worker.applied.armed_at
    /\ worker.applied.at - worker.applied.received_at < DebounceMs
    /\ call.op = "update_static_parameters"

\* C18: a table of the fields enabled = false and value = v, in either order,
\* deserializes to Off(v); one of enabled = true and value = v, or of value = v
\* alone, deserializes to On(v); and deserializing what serialize wrote for an
\* OnOff value gives that value back.
C18_OnOffRoundTrips ==
    /\ probe.fn = "deserialize" /\ probe.document.kind = "table" =>
          LET fields == probe.document.fields
              keys == {fields[i].key : i \in 1..Len(fields)}
              of(key) == (CHOOSE i \in 1..Len(fields) : fields[i].key = key)
          IN  /\ Cardinality(keys) = Len(fields)
              /\ "value" \in keys
              /\ keys \subseteq {"enabled", "value"}
              /\ fields[of("value")].value.kind \in {"integer", "float"}
              /\ "enabled" \in keys => fields[of("enabled")].value.kind = "boolean"
              => probe.out =
                    Ok(IF "enabled" \in keys /\ ~fields[of("enabled")].value.b
                       THEN Off(fields[of("value")].value.n)
                       ELSE On(fields[of("value")].value.n))
    /\ probe.fn = "round_trip" => probe.out = Ok(probe.onoff)

\* an Off value was written as a table of two fields and read back
C18_Witness ==
    /\ probe.fn = "round_trip"
    /\ probe.onoff = Off(70)
    /\ Len(probe.document.fields) = 2
    /\ probe.out.ok
    /\ probe.out.onoff.tag = "Off"

\* C19 as stated: a key named after any prefixes parses, whatever the case, to
\* an event with exactly the modifiers the prefixes name.
C19_ExactlyNamedModifiers ==
    probe.fn = "parse_key_event" /\ probe.out.ok =>
        probe.out.modifiers = {probe.prefixes[i] : i \in 1..Len(probe.prefixes)}

\* C19 amended: the text parses as its lower case does; a named key or a
\* name of one byte after any prefixes gives an event with the modifiers the
\* prefixes name, and SHIFT besides for backtab; a one-byte name gives that
\* character, in upper case if SHIFT is named; any other name is an error.
C19_NamedModifiersAndShiftForBacktab ==
    probe.fn = "parse_key_event" =>
        LET named == {probe.prefixes[i] : i \in 1..Len(probe.prefixes)}
            name == str(probe.name)
            known == name \in DOMAIN NamedKeys
        IN  /\ probe.out = probe.out_lower
            /\ probe.out.ok <=> known \/ Len(probe.name) = 1
            /\ probe.out.ok =>
                  probe.out.modifiers =
                      named \cup (IF name = "backtab" THEN {"SHIFT"} ELSE {})
            /\ name = "enter" => probe.out.code.kind = "Enter"
            /\ name = "f12" => probe.out.code = F(12)
            /\ name = "a" =>
                  probe.out.code = Char(IF "SHIFT" \in named THEN "A" ELSE "a")

\* CTRL-ALT-BACKTAB, written in upper case, parsed to BackTab with all three
\* modifiers
C19_Witness ==
    /\ probe.fn = "parse_key_event"
    /\ probe.prefixes = <<"CONTROL", "ALT">>
    /\ str(probe.raw) = "CTRL-ALT-BACKTAB"
    /\ probe.out.ok
    /\ probe.out.code.kind = "BackTab"
    /\ probe.out.modifiers = {"CONTROL", "ALT", "SHIFT"}

\* C20: every kernel lookup of a pass is at an offset within [-cutoff, +cutoff]
\* and at an index inside the kernel table.
C20_LookupsInsideKernel ==
    probe.fn = "lookup" =>
        LET nc == static_bpm_detection_parameters.normal_distribution
        IN  /\ probe.timestamp >= -Millis(nc.cutoff)
            /\ probe.timestamp <= Millis(nc.cutoff)
            /\ probe.index \in 0..(size(nc) - 1)
            /\ ~Index_panics(nc, probe.timestamp)

\* the kernel was read at +cutoff, in the last entry of its table
C20_Witness ==
    /\ probe.fn = "lookup"
    /\ probe.timestamp = Millis(static_bpm_detection_parameters.normal_distribution.cutoff)
    /\ probe.index = size(static_bpm_detection_parameters.normal_distribution) - 1
    /\ probe.index > 0

\* C21: of a pair's multiplier and subdivision at most one is a number; in_range
\* is 1 exactly when no halving and no doubling was done; after a halving or a
\* doubling in_range is NaN and its criterion adds nothing to the score
\* (10^0), whatever its weight.
C21_OneTrackerAndInRangeOnlyUnfolded ==
    probe.fn = "fold" =>
        LET folded == probe.out.halved + probe.out.doubled > 0
        IN  /\ probe.out.multiplier.nan \/ probe.out.subdivision.nan
            /\ probe.out.in_range = One <=> ~folded
            /\ folded =>
                  /\ probe.out.in_range.nan
                  /\ \A w \in 1..2 : criterion(probe.out.in_range, w) = ScoreScale
            /\ ~folded => criterion(probe.out.in_range, 1) > ScoreScale

\* a halved interval that landed inside the window: multiplier is a number,
\* subdivision and in_range are not
C21_Witness ==
    /\ probe.fn = "fold"
    /\ probe.out.halved > 0
    /\ probe.out.interval >= probe.interval_low
    /\ probe.out.interval < probe.interval_high
    /\ ~probe.out.multiplier.nan
    /\ probe.out.subdivision.nan
    /\ probe.out.in_range.nan

\* C22: the histogram and the bpm a pass returns, and the notes it keeps, are
\* those of the same call on an estimator that holds the same notes and
\* parameters and never ran a pass: nothing left in the bins shows.
C22_NothingLeftBehindShows ==
    probe.fn = "compute_bpm" =>
        /\ histogram_data_points = probe.fresh.histogram_data_points
        /\ call.ret = probe.fresh.ret
        /\ notes = probe.fresh.notes

\* a pass over two notes returned a bpm and scored bins, called with scores
\* left in the histogram
C22_Witness ==
    /\ probe.fn = "compute_bpm"
    /\ \E bin \in 1..Len(probe.left) : probe.left[bin] > 0
    /\ probe.buffered = 2
    /\ call.ret.some
    /\ \E bin \in 1..Len(histogram_data_points) : histogram_data_points[bin] > 0

\* C23: the bpm a pass returns is that of the highest bin among those that
\* hold the maximum of the histogram it wrote: no bin above it holds as much,
\* none holds more, and over a histogram of zeros it is the last bin.
C23_HighestBinAmongMaxima ==
    (call.op = "compute_bpm" /\ call.ret.some) =>
        \E bin \in 1..Len(histogram_data_points) :
            /\ call.ret.bpm = beat_duration_to_bpm(
                   index_to_duration(static_bpm_detection_parameters, bin - 1))
            /\ \A other \in 1..Len(histogram_data_points) :
                   /\ histogram_data_points[other] <= histogram_data_points[bin]
                   /\ other > bin => histogram_data_points[other] < histogram_data_points[bin]
            /\ (\A other \in 1..Len(histogram_data_points) :
                    histogram_data_points[other] = 0) => bin = Len(histogram_data_points)

\* a pass over a window that scored nothing returned the bpm of the last of
\* several bins
C23_Witness ==
    /\ call.op = "compute_bpm"
    /\ call.ret.some
    /\ Len(histogram_data_points) > 1
    /\ \A bin \in 1..Len(histogram_data_points) : histogram_data_points[bin] = 0
    /\ call.ret.bpm = beat_duration_to_bpm(
           index_to_duration(static_bpm_detection_parameters,
                             Len(histogram_data_points) - 1))

\* C24: no call empties a window that holds a note, and a pass keeps the
\* newest note at the back of the window, whatever beats_lookback is.
C24_NewestNoteStays ==
    [][notes # <<>> =>
          /\ notes' # <<>>
          /\ call'.op = "compute_bpm" => notes'[Len(notes')] = notes[Len(notes)]]_vars

\* a pass with beats_lookback 0 pruned a window of several notes down to the
\* newest one
C24_Witness ==
    /\ call.op = "compute_bpm"
    /\ call.beats_lookback = 0
    /\ call.ret.some
    /\ call.buffered > 1
    /\ Len(notes) = 1

\* C25: the estimator's static parameters change only when the worker applies
\* a pending configuration; what it applies is the last of the configurations
\* received since the previous application, of which there is at least one,
\* and nothing is left pending, so that each is applied at most once and the
\* earlier ones never.
C25_OnlyLastPendingApplied ==
    [][IF worker.pc = "expiry" /\ call'.op = "update_static_parameters"
       THEN /\ worker.received_static # <<>>
            /\ static_bpm_detection_parameters' =
                   worker.received_static[Len(worker.received_static)]
            /\ worker'.received_static = <<>>
            /\ ~worker'.scheduled_bpm_detection_config_change.some
       ELSE UNCHANGED static_bpm_detection_parameters]_vars

\* the worker has applied the last of several configurations received while
\* one was pending, and it differs from the first of them
C25_Witness ==
    /\ call.op = "update_static_parameters"
    /\ worker.applied.some
    /\ Len(worker.applied.received) > 1
    /\ worker.applied.received[1] # static_bpm_detection_parameters
    /\ worker.applied.received[Len(worker.applied.received)] = static_bpm_detection_parameters

\* C26: a configuration change handed to the worker is taken over and leaves
\* an evaluation scheduled, and a scheduled evaluation leads, unless the
\* channel is disconnected, to a pass that ran with the current dynamic
\* configuration after every pending static configuration was applied.
C26_ChangeLeadsToPass ==
    /\ [][(/\ worker.pc = "dispatch"
           /\ worker' # worker
           /\ worker.buffered_events # <<>>
           /\ Head(worker.buffered_events).kind \in
                  {"DynamicBPMDetectionConfig", "StaticBPMDetectionConfig"})
          => /\ worker'.schedule_evaluate_bpm.some
             /\ IF Head(worker.buffered_events).kind = "DynamicBPMDetectionConfig"
                THEN worker'.dynamic_bpm_detection_config =
                         Head(worker.buffered_events).dynamic
                ELSE worker'.scheduled_bpm_detection_config_change =
                         Some(Head(worker.buffered_events).static)]_vars
    /\ worker.schedule_evaluate_bpm.some
          ~> \/ ~channel.connected
             \/ /\ worker.pc = "recv"
                /\ call.op = "compute_bpm"
                /\ call.beats_lookback = worker.dynamic_bpm_detection_config.beats_lookback
                /\ ~worker.schedule_evaluate_bpm.some
                /\ ~worker.scheduled_bpm_detection_config_change.some

\* with the channel connected and silent, the timeout alone has brought a pass
\* that follows a changed dynamic configuration and an applied static one
C26_Witness ==
    /\ channel.connected
    /\ channel.queue = <<>>
    /\ ~worker.worker_event
    /\ worker.pc = "recv"
    /\ call.op = "compute_bpm"
    /\ worker.applied.some
    /\ worker.dynamic_bpm_detection_config # InitialDynamicConfig
    /\ call.beats_lookback = worker.dynamic_bpm_detection_config.beats_lookback
    /\ ~worker.schedule_evaluate_bpm.some

\* C27: each change of a parameter by the host is followed by a task of its
\* kind that reads the changed value or a later one.
C27_ChangeLeadsToTask ==
    \A kind \in Kinds : \A changes \in 1..MaxParamChanges :
        (probe.fn = "plugin" /\ probe.params[kind] = changes)
            ~> (probe.config[kind] >= changes)

\* C28: the holder holds the first value stored since it was last empty, and
\* each take returns the value held and leaves the holder empty: of the
\* threads taking one stored value, the first receives it and the others None.
C28_FirstValueKeptUntilTaken ==
    probe.fn = "holder" =>
        /\ load(probe.cell) = probe.held
        /\ \A thread \in 1..TakingThreads :
               probe.taken[thread].done =>
                   probe.taken[thread].ret = probe.taken[thread].held

\* C29: from position k NextScreen returns a Switch to position
\* (k + 1) mod COUNT and PrevScreen a Switch to position (k - 1) mod COUNT, and
\* once NextScreen, PrevScreen and their Switches are handled the mode is the
\* one it started from.
C29_ScreensCycle ==
    probe.fn = "screens" =>
        /\ probe.last.kind = "NextScreen" =>
               probe.ret = Some(Switch(nth((probe.before + 1) % COUNT)))
        /\ probe.last.kind = "PrevScreen" =>
               probe.ret = Some(Switch(nth((probe.before + COUNT - 1) % COUNT)))
        /\ probe.round.stage = 4 => probe.current_mode = probe.round.origin

\* C30: the component never panics; a device it returns in SelectDevice is in
\* its list; over a list that is not empty the selected index is below the
\* list's length; over an empty list Up and Down return nothing and leave
\* the selected index as it was.
C30_SelectionWithinList ==
    probe.fn = "select_device" =>
        /\ ~probe.panicked
        /\ probe.ret.some =>
               \E index \in 1..Len(probe.devices) : probe.devices[index] = probe.ret.val
        /\ probe.devices # <<>> =>
               probe.selected.some /\ probe.selected.val < Len(probe.devices)
        /\ (probe.devices = <<>> /\ probe.last \in {"Up", "Down"}) =>
               ~probe.ret.some /\ probe.selected = probe.before

\* C7: duration_to_index(d, len) is Some(i) exactly when
\* i = duration_to_sample(d) - duration_to_sample(period(highest_bpm))
\* satisfies 0 <= i < len, and None otherwise.
C7_IndexInsideBufferOrNone ==
    probe.fn = "duration_to_index" =>
        LET i == duration_to_sample(probe.cfg.sample_rate, probe.arg)
                 - duration_to_sample(probe.cfg.sample_rate,
                                      bpm_to_beat_duration(highest_bpm(probe.cfg)))
        IN  IF 0 <= i /\ i < probe.len
            THEN probe.out.some /\ probe.out.val = i
            ELSE ~probe.out.some

\* C7 witness: a duration mapped to the last bin of the buffer
C7_Witness ==
    /\ probe.fn = "duration_to_index"
    /\ probe.out.some /\ probe.out.val = probe.len - 1
    /\ probe.len > 1

\* C8: for every bin index i of the buffer,
\* duration_to_index(index_to_duration(i), buffer_size) is Some(j) with
\* |j - i| <= 1.
C8_RoundTripWithinOne ==
    probe.fn = "round_trip" =>
        /\ probe.out.some
        /\ probe.out.val - probe.arg <= 1
        /\ probe.arg - probe.out.val <= 1

\* C8 witness: a round trip that lands one bin off
C8_Witness ==
    /\ probe.fn = "round_trip"
    /\ probe.out.some /\ probe.out.val # probe.arg

\* C9: buffer_size is > 0 whenever lowest_bpm < highest_bpm, and the call
\* panics when lowest_bpm >= highest_bpm.
C9_BufferSizePositiveOrFatal ==
    probe.fn = "buffer_size" =>
        IF lowest_bpm(probe.cfg).n < highest_bpm(probe.cfg).n
        THEN probe.out.some /\ probe.out.val > 0
        ELSE ~probe.out.some

\* C10: lowest_bpm = max(1, bpm_center - bpm_range / 2) and
\* highest_bpm = lowest_bpm + bpm_range, hence lowest_bpm < highest_bpm
\* (bpm values in units of 1 / BpmScale, the halves taken exactly).
C10_WindowAroundCenter ==
    probe.fn = "bpm_bounds" =>
        /\ 2 * probe.bpm.lowest
             = Max(2 * BpmScale, 2 * probe.cfg.bpm_center - BpmScale * probe.cfg.bpm_range)
        /\ probe.bpm.highest = probe.bpm.lowest + BpmScale * probe.cfg.bpm_range
        /\ probe.bpm.lowest < probe.bpm.highest

====
